---- MODULE Spec2Model ----
(***************************************************************************)
(* ApexView client-side data-access layer (ui/src/lib/api.ts, storage.ts,  *)
(* cacheAnalytics.ts): memory cache, localStorage / IndexedDB storage      *)
(* cache, retrying network fetch, analytics event log and the cacheManager *)
(* facade, as a state machine.  Every await that gives control back to the *)
(* event loop (network fetch, backoff timer, IndexedDB request) separates  *)
(* two actions; code between two such points is one action.                *)
(***************************************************************************)
EXTENDS Integers, Sequences, FiniteSets, TLC

\* ------------------------------------------------------------------ bounds
MaxOps == 3            \* operations invoked (apiCall, clearAll, updateSettings,
                       \* setEnabled), clock advances and storage backend
                       \* failures in one behaviour
MaxInFlight == 1       \* apiCall invocations in progress at the same time
MaxParallel == 2       \* apiCall invocations in progress at the same time
                       \* while the cacheManager facade is exercised
MaxLiveOps == 1        \* operations and backend failures after which no call
                       \* is invoked, while termination is examined
MaxClock == 1          \* milliseconds that pass while trackEvent is exercised

\* ------------------------------------------------------- program constants
MEMORY_TTL == 5 * 60 * 1000
STORAGE_DEFAULT_TTL == 1 * 60 * 60 * 1000
RACE_DATA_TTL == 7 * 24 * 60 * 60 * 1000
DRIVER_DATA_TTL == 24 * 60 * 60 * 1000
STANDINGS_TTL == 1 * 60 * 60 * 1000
NEWS_TTL == 15 * 60 * 1000
MAX_RETRIES == 2
RETRY_DELAY == 1000
sizeThreshold == 100 * 1024
maxEvents == 100

API_BASE ==
  <<"h","t","t","p",":","/","/","l","o","c","a","l","h","o","s","t",":",
    "8","0","0","1","/","a","p","i">>
prefix == <<"f","1","-","c","a","c","h","e","-">>

\* ------------------------------------------------------------ input sets
\* Request URLs, as the fetch* functions build them.
UrlRaces == API_BASE \o <<"/","r","a","c","e","s","/","2","0","2","5">>
Urls == {UrlRaces}

\* The URLs of the other fetch functions; 2025 stands for
\* new Date().getFullYear().
UrlDrivers ==
  API_BASE \o <<"/","d","r","i","v","e","r","s","/","2","0","2","5","/","m","/","R">>
UrlDriverStandings ==
  API_BASE \o <<"/","s","e","a","s","o","n","s","/","d","r","i","v","e","r","/",
                "2","0","2","5">>
UrlConstructorStandings ==
  API_BASE \o <<"/","s","e","a","s","o","n","s","/","c","o","n","s","t","r","u","c",
                "t","o","r","/","2","0","2","5">>
UrlNews == API_BASE \o <<"/","n","e","w","s">>
\* fetchDriverProfile(driverId) for the ids "max_v" and "max-v".
UrlProfileUnderscore ==
  API_BASE \o <<"/","d","r","i","v","e","r","s","/","p","r","o","f","i","l","e",
                "/","m","a","x","_","v">>
UrlProfileHyphen ==
  API_BASE \o <<"/","d","r","i","v","e","r","s","/","p","r","o","f","i","l","e",
                "/","m","a","x","-","v">>
AllUrls ==
  Urls \cup {UrlDrivers, UrlDriverStandings, UrlConstructorStandings, UrlNews,
             UrlProfileUnderscore, UrlProfileHyphen}

\* Decoded JSON bodies: what matters to the code is the length of
\* JSON.stringify(value) and whether the value is truthy.
JsonZero == [doc |-> "0", size |-> 1, truthy |-> FALSE]
JsonSmall == [doc |-> "small", size |-> sizeThreshold - 1, truthy |-> TRUE]
JsonLarge == [doc |-> "large", size |-> sizeThreshold, truthy |-> TRUE]
Values == {JsonZero, JsonSmall, JsonLarge}
EmptyObject == [doc |-> "{}", size |-> 2, truthy |-> TRUE]
Null == [null |-> TRUE]

\* A cacheTTL below MEMORY_TTL, besides the default above it.
ShortTtl == 60 * 1000
Ttls == {ShortTtl, STORAGE_DEFAULT_TTL}
RetryChoices == {0, MAX_RETRIES}
\* The clock advances to, or just past, one of the expiry boundaries.
TimeSteps == {ShortTtl, ShortTtl + 1, MEMORY_TTL, MEMORY_TTL + 1,
              STORAGE_DEFAULT_TTL, STORAGE_DEFAULT_TTL + 1}
NetFailures == {"httpStatus", "timeout", "connection"}

\* ------------------------------------------------------------- helpers
AlphaNum ==
  {"a","b","c","d","e","f","g","h","i","j","k","l","m","n","o","p","q","r",
   "s","t","u","v","w","x","y","z","A","B","C","D","E","F","G","H","I","J",
   "K","L","M","N","O","P","Q","R","S","T","U","V","W","X","Y","Z",
   "0","1","2","3","4","5","6","7","8","9"}

createCacheKey(url) ==
  [i \in 1..Len(url) |-> IF url[i] \in AlphaNum THEN url[i] ELSE "_"]

getFullKey(key) == prefix \o key

startsWith(s, p) == Len(p) <= Len(s) /\ SubSeq(s, 1, Len(p)) = p

Keys == {createCacheKey(u) : u \in AllUrls}
FullKeys == {getFullKey(k) : k \in Keys}

RECURSIVE Pow2(_)
Pow2(n) == IF n = 0 THEN 1 ELSE 2 * Pow2(n - 1)
Max(a, b) == IF a > b THEN a ELSE b
Truthy(v) == v # Null /\ v.truthy

NoEntry == [absent |-> TRUE]
NoReturn == [none |-> TRUE]
NoReport == [kind |-> "none"]

DefaultOptions ==
  [useCache |-> TRUE, cacheTTL |-> STORAGE_DEFAULT_TTL, retries |-> MAX_RETRIES,
   prefetch |-> FALSE, forceFresh |-> FALSE]

\* An apiCall invocation.  pc is the await it is suspended at; ret, result and
\* src are what its caller has received.  The remaining fields record what
\* happened during the call and are never read by an action's guard.
InitCall ==
  [pc |-> "idle", url |-> <<>>, key |-> <<>>, opts |-> DefaultOptions,
   attempt |-> 0, data |-> Null, wakeAt |-> 0, fetchedAt |-> 0,
   ret |-> "none", result |-> Null, src |-> "none", retAt |-> 0,
   atts |-> <<>>, delays |-> <<>>, fault |-> FALSE, sawOff |-> {},
   probed |-> {}, wrote |-> {}, hit |-> NoEntry, fast |-> "none",
   via |-> "caller",
   cfg |-> [useMemoryCache |-> TRUE, useStorageCache |-> TRUE],
   staleAtStart |-> Null, fbHad |-> FALSE, fbRead |-> FALSE, after |-> NoReturn,
   startedAt |-> 0, freshAtStart |-> Null, emitted |-> <<>>, quiet |-> FALSE]

\* The options of a call: the defaults of apiCall with at most one of them
\* overridden.
ApiCallOptions ==
  {o \in [useCache : BOOLEAN, cacheTTL : Ttls, retries : RetryChoices,
          prefetch : BOOLEAN, forceFresh : BOOLEAN] :
     Cardinality({f \in DOMAIN o : o[f] # DefaultOptions[f]}) <= 1}

InitMgr ==
  [pc |-> "idle", overlap |-> FALSE, fault |-> FALSE, last |-> "none",
   changed |-> FALSE, type |-> <<>>, refreshed |-> <<>>]

VARIABLES
  now,            \* Date.now()
  ops,            \* operations, clock advances and backend failures so far
  settings,       \* CACHE_SETTINGS
  enabled,        \* cacheAnalytics.enabled
  events,         \* cacheAnalytics.events, newest first
  memory,         \* MemoryCache.cache
  ls,             \* localStorage
  idb,            \* the IndexedDB object store
  idbConn,        \* IndexedDBProvider.dbPromise: "unopened", "open", "failed"
  idbQueue,       \* IndexedDB requests issued and not yet completed, in order
  calls,          \* the apiCall invocations
  mgr,            \* the cacheManager operation in progress
  lastSet,        \* per key, the latest storage-cache write that took effect
  lastReturn,     \* the apiCall that returned last, until anything else happens
  report,         \* what the last getStats / getHealthReport call returned
  listeners       \* the handlers addCacheEventListener registered on window

vars == <<now, ops, settings, enabled, events, memory, ls, idb,
          idbConn, idbQueue, calls, mgr, lastSet, lastReturn, report,
          listeners>>

Settled == {"done", "failed", "pfDone"}
InFlight(c) == calls[c].pc \notin ({"idle"} \cup Settled)

Init ==
  /\ now = 0
  /\ ops = 0
  /\ settings = [useMemoryCache |-> TRUE, useStorageCache |-> TRUE,
                 enableLogging |-> TRUE, enableAnalytics |-> TRUE]
  /\ enabled = TRUE
  /\ events = <<>>
  /\ memory = [k \in Keys |-> NoEntry]
  /\ ls = [fk \in FullKeys |-> NoEntry]
  /\ idb = [fk \in FullKeys |-> NoEntry]
  /\ idbConn = "unopened"
  /\ idbQueue = <<>>
  /\ calls = [c \in 1..MaxInFlight |-> InitCall]
  /\ mgr = InitMgr
  /\ lastSet = [k \in Keys |-> NoEntry]
  /\ lastReturn = NoReturn
  /\ report = NoReport
  /\ listeners = <<>>

\* ------------------------------------------------------------ analytics
\* trackEvent: { ...event, timestamp: Date.now() }
Stamped(e) ==
  [f \in DOMAIN e \cup {"timestamp"} |-> IF f = "timestamp" THEN now ELSE e[f]]

\* A trackEvent that pushes the event at the end of the array.
trackEventPush(evs, e) ==
  IF ~enabled THEN evs
  ELSE LET all == evs \o <<Stamped(e)>>
       IN IF Len(all) > maxEvents THEN SubSeq(all, 1, maxEvents) ELSE all

\* A trackEvent that records whether the collector is enabled or not.
trackEventWhileDisabled(evs, e) ==
  LET all == <<Stamped(e)>> \o evs
  IN IF Len(all) > maxEvents THEN SubSeq(all, 1, maxEvents) ELSE all

\* CacheAnalytics.trackEvent
trackEvent(evs, e) ==
  IF ~enabled THEN evs
  ELSE LET all == <<Stamped(e)>> \o evs
       IN IF Len(all) > maxEvents THEN SubSeq(all, 1, maxEvents) ELSE all

\* if (CACHE_SETTINGS.enableAnalytics) cacheAnalytics.trackEvent({...})
Emit(evs, type, source, key) ==
  IF settings.enableAnalytics
    THEN trackEvent(evs, [type |-> type, source |-> source, key |-> key])
    ELSE evs

\* CacheAnalytics.clearEvents
clearEvents(evs) == <<>>

\* --------------------------------------------------------- expiry tests
\* A memory cache that kept its entries for the storage default lifetime.
MemoryExpiredByStorageTtl(entry) == now - entry.timestamp > STORAGE_DEFAULT_TTL

\* MemoryCache.get: Date.now() - entry.timestamp > CACHE_CONFIG.MEMORY_TTL
MemoryExpired(entry) == now - entry.timestamp > MEMORY_TTL

\* LocalStorageProvider.get / IndexedDBProvider.get:
\* Date.now() - timestamp > ttl
StorageExpired(item) == now - item.timestamp > item.ttl

\* A routing test that sends a value of exactly the threshold size to
\* localStorage.
UseLocalStorageInclusive(value) == value.size <= sizeThreshold

\* SmartStorageProvider.set: size < this.sizeThreshold
UseLocalStorage(value) == value.size < sizeThreshold

\* A retry test that also waits after the last attempt.
ShouldRetryInclusive(attempt, retries) == attempt <= retries

\* fetchWithRetry: attempt < retries
ShouldRetry(attempt, retries) == attempt < retries

\* fetchWithRetry: RETRY_CONFIG.RETRY_DELAY * Math.pow(2, attempt)
BackoffDelay(attempt) == RETRY_DELAY * Pow2(attempt)

\* fetchWithRetry: for (let attempt = 0; attempt <= retries; attempt++)
LoopContinues(attempt, retries) == attempt <= retries

\* ------------------------------------------------- one step of one call
\* The code between two suspension points runs on a working copy of the
\* state: the call's record, the stores it touches, and val, the value the
\* last get produced.
Ctx(c) ==
  [id |-> c, call |-> calls[c], memory |-> memory, ls |-> ls, idb |-> idb,
   q |-> idbQueue, events |-> events, lastSet |-> lastSet, val |-> Null,
   nf |-> 0, returned |-> FALSE]

\* A backend operation of the call failed.  An IndexedDB connection that
\* failed to open keeps failing: that is the same failure, not a new one.
Faulted(x) == [x EXCEPT !.call.fault = TRUE, !.nf = @ + 1]
IdbFaulted(x) ==
  IF idbConn = "failed" THEN [x EXCEPT !.call.fault = TRUE] ELSE Faulted(x)
IdbNewFault(out) == IF out = "ok" \/ idbConn = "failed" THEN 0 ELSE 1

\* The entry a get served, the tier it came from and the time of the read.
Served(entry, tier) ==
  [tier |-> tier, data |-> entry.data, timestamp |-> entry.timestamp,
   ttl |-> entry.ttl, at |-> now,
   freshUntil |-> IF tier = "memory" THEN entry.freshUntil
                  ELSE entry.timestamp + entry.ttl]

\* One of the call's analytics events: emitted lists those that were tracked,
\* quiet tells that one was not.
emit(x, type, source) ==
  LET tracked == settings.enableAnalytics /\ enabled
  IN [x EXCEPT !.events = Emit(@, type, source, x.call.key),
               !.call.emitted = IF tracked THEN Append(@, <<type, source>>) ELSE @,
               !.call.quiet = @ \/ ~tracked]

sawOff(x, tier) == [x EXCEPT !.call.sawOff = @ \cup {tier}]

\* A MemoryCache.get that reports an expired entry and leaves it in the map.
memoryCacheGetKeepsExpired(x) ==
  LET k == x.call.key
      entry == x.memory[k]
      y == [x EXCEPT !.call.probed = @ \cup {"memory"}]
  IN IF entry = NoEntry
       THEN [emit(y, "miss", "memory") EXCEPT !.val = Null, !.call.fast = "miss"]
     ELSE IF MemoryExpired(entry)
       THEN [emit(y, "expired", "memory") EXCEPT !.val = Null, !.call.fast = "miss"]
     ELSE [emit(y, "hit", "memory") EXCEPT !.val = entry.data,
                                           !.call.hit = Served(entry, "memory"),
                                           !.call.fast = "hit"]

\* MemoryCache.get
memoryCacheGet(x) ==
  LET k == x.call.key
      entry == x.memory[k]
      y == [x EXCEPT !.call.probed = @ \cup {"memory"}]
  IN IF entry = NoEntry
       THEN [emit(y, "miss", "memory") EXCEPT !.val = Null, !.call.fast = "miss"]
     ELSE IF MemoryExpired(entry)
       THEN [emit([y EXCEPT !.memory[k] = NoEntry], "expired", "memory")
               EXCEPT !.val = Null, !.call.fast = "miss"]
     ELSE [emit(y, "hit", "memory") EXCEPT !.val = entry.data,
                                           !.call.hit = Served(entry, "memory"),
                                           !.call.fast = "hit"]

\* MemoryCache.set.  ttl and freshUntil are not stored by the code: they
\* record the cacheTTL of the call that wrote the entry and the time at which
\* the lifetime of the value, counted from its network fetch, ends.
memoryCacheSet(x, data, freshUntil) ==
  emit([x EXCEPT !.memory[x.call.key] =
                    [data |-> data, timestamp |-> now,
                     ttl |-> x.call.opts.cacheTTL, freshUntil |-> freshUntil],
                 !.call.wrote = @ \cup {"memory"}],
       "set", "memory")

\* LocalStorageProvider.get; out = "fault" is getItem or JSON.parse throwing.
localStorageGet(x, out) ==
  LET fk == getFullKey(x.call.key)
      item == x.ls[fk]
      y == [x EXCEPT !.call.probed = @ \cup {"localStorage"}]
  IN IF out = "fault" THEN [Faulted(y) EXCEPT !.val = Null]
     ELSE IF item = NoEntry THEN [y EXCEPT !.val = Null]
     ELSE IF StorageExpired(item)
       THEN [y EXCEPT !.ls[fk] = NoEntry, !.val = Null]
     ELSE [y EXCEPT !.val = item.data,
                    !.call.hit = Served(item, "localStorage")]

\* LocalStorageProvider.set; out = "fault" is setItem throwing (quota).
localStorageSet(x, data, ttl, out) ==
  LET item == [data |-> data, timestamp |-> now, ttl |-> ttl]
  IN IF out = "fault" THEN Faulted(x)
     ELSE [x EXCEPT !.ls[getFullKey(x.call.key)] = item,
                    !.lastSet[x.call.key] =
                       [data |-> data, timestamp |-> now, ttl |-> ttl,
                        backend |-> "localStorage"],
                    !.call.wrote = @ \cup {"localStorage"}]

\* An IndexedDB request is issued: it completes in a later turn of the
\* event loop, after the requests issued before it.
idbRequest(x, op, item) ==
  [x EXCEPT !.q = Append(@, [op |-> op, fk |-> getFullKey(x.call.key),
                             owner |-> x.id, item |-> item])]

returnValue(x, v, src) ==
  [x EXCEPT !.call.pc = "done", !.call.ret = "value", !.call.result = v,
            !.call.src = src, !.call.retAt = now, !.returned = TRUE]

throwError(x) ==
  [x EXCEPT !.call.pc = "failed", !.call.ret = "error", !.call.retAt = now,
            !.returned = TRUE]

\* apiCall, catch block: the value of the second storageCache.get decides.
fallbackResult(x) ==
  IF Truthy(x.val) THEN returnValue(x, x.val, "stale") ELSE throwError(x)

\* A store slot holds a value the fallback's truthiness test lets through.
Holds(item) == item # NoEntry /\ Truthy(item.data)

\* A fallback that reads the storage cache whatever the settings are.
staleFallbackUnguarded(x, lsOut) ==
  LET fk == getFullKey(x.call.key)
      y == [x EXCEPT !.call.fbHad = (Holds(x.ls[fk]) \/ Holds(x.idb[fk]))]
      z == localStorageGet([y EXCEPT !.call.fbRead = TRUE], lsOut)
  IN IF z.val # Null THEN fallbackResult(z)
     ELSE [idbRequest(z, "get", NoEntry) EXCEPT !.call.pc = "fbIdbGet"]

\* apiCall, catch block of the fetchWithRetry call.
staleFallback(x, lsOut) ==
  LET fk == getFullKey(x.call.key)
      y == [x EXCEPT !.call.fbHad = (Holds(x.ls[fk]) \/ Holds(x.idb[fk]))]
  IN IF settings.useStorageCache
       THEN LET z == localStorageGet([y EXCEPT !.call.fbRead = TRUE], lsOut)
            IN IF z.val # Null THEN fallbackResult(z)
               ELSE [idbRequest(z, "get", NoEntry) EXCEPT !.call.pc = "fbIdbGet"]
       ELSE throwError(sawOff(y, "storage"))

\* fetchWithRetry: the loop header, entered with the next attempt index.
nextIteration(x, a, lsOut) ==
  LET y == [x EXCEPT !.call.attempt = a]
  IN IF LoopContinues(a, x.call.opts.retries)
       THEN [y EXCEPT !.call.pc = "fetch"]
       ELSE staleFallback(y, lsOut)

\* fetchWithRetry, catch block of one attempt.
attemptFailed(x, lsOut) ==
  LET y == emit(x, "error", "network")
      a == y.call.attempt
  IN IF ShouldRetry(a, y.call.opts.retries)
       THEN [y EXCEPT !.call.pc = "backoff",
                      !.call.wakeAt = now + BackoffDelay(a),
                      !.call.delays = Append(@, BackoffDelay(a))]
       ELSE nextIteration(y, a + 1, lsOut)

\* fetchWithRetry after the cache writes: the 'set' event and the return.
cacheWritten(x, v) == returnValue(emit(x, "set", "network"), v, "network")

IdbItem(x, v) ==
  [data |-> v, timestamp |-> now, ttl |-> x.call.opts.cacheTTL]

\* fetchWithRetry, try block after res.json().
networkSuccess(x, v, lsOut) ==
  IF ~x.call.opts.useCache THEN returnValue(x, v, "network")
  ELSE LET y == IF settings.useMemoryCache
                  THEN memoryCacheSet(x, v, now + x.call.opts.cacheTTL)
                ELSE sawOff(x, "memory")
       IN IF ~settings.useStorageCache THEN cacheWritten(sawOff(y, "storage"), v)
          ELSE IF UseLocalStorage(v)
            THEN cacheWritten(localStorageSet(y, v, y.call.opts.cacheTTL, lsOut), v)
          ELSE [idbRequest(y, "put", IdbItem(y, v))
                  EXCEPT !.call.pc = "idbSet", !.call.data = v]

\* apiCall after the first storageCache.get returned.
afterStorageGet(x, lsOut) ==
  IF Truthy(x.val)
    THEN returnValue(IF settings.useMemoryCache
                       THEN memoryCacheSet(x, x.val, x.call.hit.freshUntil)
                     ELSE sawOff(x, "memory"),
                     x.val, "storage")
    ELSE nextIteration(emit(x, "miss", "network"), 0, lsOut)

\* apiCall, the cache probes of a call with useCache and without forceFresh.
probeCaches(x, lsOut) ==
  LET m == IF settings.useMemoryCache THEN memoryCacheGet(x)
           ELSE sawOff(x, "memory")
  IN IF Truthy(m.val) THEN returnValue(m, m.val, "memory")
     ELSE IF settings.useStorageCache
       THEN LET z == localStorageGet(m, lsOut)
            IN IF z.val # Null THEN afterStorageGet(z, lsOut)
               ELSE [idbRequest(z, "get", NoEntry) EXCEPT !.call.pc = "idbGet"]
     ELSE nextIteration(emit(sawOff(m, "storage"), "miss", "network"), 0, lsOut)

\* IndexedDBProvider.get once its request has completed (out # "reqFail").
\* An expired item is removed by a further request, issued now.
indexedDBGet(x, out) ==
  LET fk == getFullKey(x.call.key)
      item == x.idb[fk]
      y == [x EXCEPT !.call.probed = @ \cup {"indexedDB"}]
  IN IF out = "openFail" THEN [IdbFaulted(y) EXCEPT !.val = Null]
     ELSE IF item = NoEntry THEN [y EXCEPT !.val = Null]
     ELSE IF StorageExpired(item)
       THEN [y EXCEPT !.val = Null,
                      !.q = Append(@, [op |-> "delete", fk |-> fk, owner |-> 0,
                                       item |-> NoEntry])]
     ELSE [y EXCEPT !.val = item.data, !.call.hit = Served(item, "indexedDB")]

\* IndexedDBProvider.set once store.put has succeeded.
indexedDBPut(x, req) ==
  [x EXCEPT !.idb[req.fk] = req.item,
            !.lastSet[x.call.key] =
               [data |-> req.item.data, timestamp |-> req.item.timestamp,
                ttl |-> req.item.ttl, backend |-> "indexedDB"],
            !.call.wrote = @ \cup {"indexedDB"}]

\* fetchAndCache, try block after res.json().
prefetchSuccess(x, v, lsOut) ==
  LET y == IF settings.useMemoryCache
             THEN memoryCacheSet(x, v, now + x.call.opts.cacheTTL)
           ELSE sawOff(x, "memory")
  IN IF ~settings.useStorageCache
       THEN [emit(sawOff(y, "storage"), "set", "network") EXCEPT !.call.pc = "pfDone"]
     ELSE IF UseLocalStorage(v)
       THEN [emit(localStorageSet(y, v, y.call.opts.cacheTTL, lsOut),
                  "set", "network") EXCEPT !.call.pc = "pfDone"]
     ELSE [idbRequest(y, "put", IdbItem(y, v))
             EXCEPT !.call.pc = "pfIdbSet", !.call.data = v]

\* A fetchAndCache whose failure reaches the caller of apiCall.
prefetchFailedSurfaced(x) == throwError(emit(x, "error", "network"))

\* A fetchAndCache that fetches again after a failure.
prefetchFailedRetried(x) ==
  [emit(x, "error", "network") EXCEPT !.call.pc = "pfFetch"]

\* fetchAndCache, catch block.
prefetchFailed(x) ==
  [emit(x, "error", "network") EXCEPT !.call.pc = "pfDone"]

\* The expired durable value a call finds for its key when it starts.
StaleValue(k) ==
  LET l == ls[getFullKey(k)]
      d == idb[getFullKey(k)]
  IN IF l # NoEntry /\ StorageExpired(l) THEN l.data
     ELSE IF l = NoEntry /\ d # NoEntry /\ StorageExpired(d) THEN d.data
     ELSE Null

\* SmartStorageProvider.get(k) as a function of the stores: what a get issued
\* now returns when no backend operation fails.
smartStorageGet(k) ==
  LET l == ls[getFullKey(k)]
      d == idb[getFullKey(k)]
  IN IF l # NoEntry /\ ~StorageExpired(l) THEN l.data
     ELSE IF d # NoEntry /\ ~StorageExpired(d) THEN d.data
     ELSE Null

\* lastSet[k] is forgotten when the entry it names is gone.
Norm(lset, ls2, idb2) ==
  [k \in Keys |->
     IF lset[k] = NoEntry THEN NoEntry
     ELSE IF lset[k].backend = "localStorage" /\ ls2[getFullKey(k)] = NoEntry
       THEN NoEntry
     ELSE IF lset[k].backend = "indexedDB" /\ idb2[getFullKey(k)] = NoEntry
       THEN NoEntry
     ELSE lset[k]]

Commit(x, t, conn) ==
  /\ calls' = [calls EXCEPT ![x.id] = x.call]
  /\ memory' = x.memory
  /\ ls' = x.ls
  /\ idb' = x.idb
  /\ idbQueue' = x.q
  /\ events' = x.events
  /\ lastSet' = Norm(x.lastSet, x.ls, x.idb)
  /\ lastReturn' = IF x.returned
                     THEN [key |-> x.call.key, ret |-> x.call.ret,
                           result |-> x.call.result, src |-> x.call.src,
                           opts |-> x.call.opts, fault |-> x.call.fault,
                           sawOff |-> x.call.sawOff,
                           fetchedAt |-> x.call.fetchedAt, at |-> t]
                     ELSE NoReturn
  /\ now' = t
  /\ idbConn' = conn
  /\ mgr' = IF mgr.pc = "clearing" THEN [mgr EXCEPT !.overlap = TRUE] ELSE mgr
  /\ ops' = ops + x.nf + (IF InFlight(x.id) THEN 0 ELSE 1)
  /\ ops' <= MaxOps
  /\ UNCHANGED <<listeners, report, settings, enabled>>

\* The outcomes the next IndexedDB request can have: the connection, once
\* opened or failed, stays so (getDB caches dbPromise).
IdbOutcomes ==
  IF idbConn = "failed" THEN {"openFail"}
  ELSE IF idbConn = "open" THEN {"ok", "reqFail"}
  ELSE {"ok", "reqFail", "openFail"}
ConnAfter(out) == IF out = "openFail" THEN "failed" ELSE "open"
LsOutcomes == {"ok", "fault"}

NextReq == idbQueue[1]
Popped(c) == [Ctx(c) EXCEPT !.q = Tail(@)]

\* apiCall(url, options) from its entry to its first suspension point, run
\* in the slot x.id on the stores of x; via names the function that called it.
apiCallStart(x0, url, o, via, lsOut) ==
  LET k == createCacheKey(url)
      x == [x0 EXCEPT
              !.call = [InitCall EXCEPT
                !.url = url, !.key = k, !.opts = o, !.via = via,
                !.cfg = [useMemoryCache |-> settings.useMemoryCache,
                         useStorageCache |-> settings.useStorageCache],
                !.staleAtStart = StaleValue(k),
                !.startedAt = now, !.freshAtStart = smartStorageGet(k),
                !.after = IF lastReturn # NoReturn /\ lastReturn.key = k
                            THEN lastReturn ELSE NoReturn]]
  IN IF o.prefetch
       THEN [x EXCEPT !.call.pc = "pfFetch", !.call.ret = "value",
                      !.call.result = EmptyObject,
                      !.call.src = "prefetch", !.call.retAt = now,
                      !.returned = TRUE]
     ELSE IF o.useCache /\ ~o.forceFresh THEN probeCaches(x, lsOut)
     ELSE nextIteration(x, 0, lsOut)

\* ---------------------------------------------------------------- actions
\* apiCall(url, options) is invoked and runs to its first suspension point.
Start(c, url, o, lsOut) ==
  /\ ~InFlight(c)
  /\ \A d \in 1..(c - 1) : InFlight(d)
  /\ ops < MaxOps
  /\ Commit(apiCallStart(Ctx(c), url, o, "caller", lsOut), now, idbConn)

\* fetch(url) resolved with an ok response and res.json() decoded v.
FetchOk(c, v, lsOut) ==
  /\ calls[c].pc = "fetch"
  /\ Commit(networkSuccess([Ctx(c) EXCEPT !.call.atts = Append(@, "ok"),
                                          !.call.fetchedAt = now],
                           v, lsOut),
            now, idbConn)

\* fetch(url) failed: non-ok status, abort by the timeout, or rejection.
FetchFail(c, kind, lsOut) ==
  /\ calls[c].pc = "fetch"
  /\ kind \in NetFailures
  /\ Commit(attemptFailed([Ctx(c) EXCEPT !.call.atts = Append(@, "fail")],
                          lsOut),
            now, idbConn)

\* The backoff timer fired.
BackoffDone(c, lsOut) ==
  /\ calls[c].pc = "backoff"
  /\ Commit(nextIteration(Ctx(c), calls[c].attempt + 1, lsOut),
            Max(now, calls[c].wakeAt), idbConn)

\* The IndexedDB get of the first storage probe completed.
StorageProbeDone(c, out, lsOut) ==
  /\ calls[c].pc = "idbGet"
  /\ idbQueue # <<>> /\ NextReq.owner = c /\ NextReq.op = "get"
  /\ out \in IdbOutcomes
  /\ Commit(IF out = "reqFail"
              THEN nextIteration(
                     emit(emit(IdbFaulted(Popped(c)), "error", "localStorage"),
                          "miss", "network"), 0, lsOut)
              ELSE afterStorageGet(indexedDBGet(Popped(c), out), lsOut),
            now, ConnAfter(out))

\* The IndexedDB get of the fallback probe completed.
FallbackProbeDone(c, out) ==
  /\ calls[c].pc = "fbIdbGet"
  /\ idbQueue # <<>> /\ NextReq.owner = c /\ NextReq.op = "get"
  /\ out \in IdbOutcomes
  /\ Commit(IF out = "reqFail" THEN throwError(IdbFaulted(Popped(c)))
            ELSE fallbackResult(indexedDBGet(Popped(c), out)),
            now, ConnAfter(out))

\* The IndexedDB put issued by fetchWithRetry completed.
CacheWriteDone(c, out, lsOut) ==
  /\ calls[c].pc = "idbSet"
  /\ idbQueue # <<>> /\ NextReq.owner = c /\ NextReq.op = "put"
  /\ out \in IdbOutcomes
  /\ Commit(IF out = "ok"
              THEN cacheWritten(indexedDBPut(Popped(c), NextReq), calls[c].data)
            ELSE IF out = "openFail"
              THEN cacheWritten(IdbFaulted(Popped(c)), calls[c].data)
            ELSE attemptFailed(IdbFaulted(Popped(c)), lsOut),
            now, ConnAfter(out))

\* fetchAndCache: fetch(url) resolved ok.
PrefetchOk(c, v, lsOut) ==
  /\ calls[c].pc = "pfFetch"
  /\ Commit(prefetchSuccess([Ctx(c) EXCEPT !.call.atts = Append(@, "ok"),
                                           !.call.fetchedAt = now],
                            v, lsOut),
            now, idbConn)

\* fetchAndCache: fetch(url) failed.
PrefetchFail(c, kind) ==
  /\ calls[c].pc = "pfFetch"
  /\ kind \in NetFailures
  /\ Commit(prefetchFailed([Ctx(c) EXCEPT !.call.atts = Append(@, "fail")]),
            now, idbConn)

\* The IndexedDB put issued by fetchAndCache completed.
PrefetchWriteDone(c, out) ==
  /\ calls[c].pc = "pfIdbSet"
  /\ idbQueue # <<>> /\ NextReq.owner = c /\ NextReq.op = "put"
  /\ out \in IdbOutcomes
  /\ Commit(IF out = "ok"
              THEN [emit(indexedDBPut(Popped(c), NextReq), "set", "network")
                      EXCEPT !.call.pc = "pfDone"]
            ELSE IF out = "openFail"
              THEN [emit(IdbFaulted(Popped(c)), "set", "network")
                      EXCEPT !.call.pc = "pfDone"]
            ELSE prefetchFailed(IdbFaulted(Popped(c))),
            now, ConnAfter(out))

\* The delete issued by IndexedDBProvider.get for an expired item completed.
ExpiredRemoveDone(out) ==
  /\ idbQueue # <<>> /\ NextReq.op = "delete"
  /\ out \in IdbOutcomes
  /\ idb' = IF out = "ok" THEN [idb EXCEPT ![NextReq.fk] = NoEntry] ELSE idb
  /\ idbQueue' = Tail(idbQueue)
  /\ idbConn' = ConnAfter(out)
  /\ ops' = ops + IdbNewFault(out)
  /\ ops' <= MaxOps
  /\ lastSet' = Norm(lastSet, ls, idb')
  /\ lastReturn' = NoReturn
  /\ UNCHANGED <<listeners, report, now, settings, enabled, events, memory, ls, calls, mgr>>

\* A clear that empties the whole host store.
ClearedWholeStore(store, fullPrefix) == [fk \in DOMAIN store |-> NoEntry]

\* LocalStorageProvider.clear / IndexedDBProvider.clear: the keys removed.
ClearedStore(store, fullPrefix) ==
  [fk \in DOMAIN store |->
     IF startsWith(fk, fullPrefix) THEN NoEntry ELSE store[fk]]

\* cacheManager.clearAll up to await storageCache.clear(): the memory cache
\* and localStorage are cleared, the IndexedDB clear is issued.
ClearAllStart(lsOut) ==
  /\ mgr.pc = "idle"
  /\ lsOut \in LsOutcomes
  /\ ops' = ops + 1 + (IF lsOut = "fault" THEN 1 ELSE 0)
  /\ ops' <= MaxOps
  /\ memory' = [k \in Keys |-> NoEntry]
  /\ ls' = IF lsOut = "ok" THEN ClearedStore(ls, prefix) ELSE ls
  /\ idbQueue' = Append(idbQueue, [op |-> "clear", fk |-> prefix, owner |-> -1,
                                   item |-> NoEntry])
  /\ mgr' = [mgr EXCEPT !.pc = "clearing",
                        !.overlap = \E c \in 1..MaxInFlight : InFlight(c),
                        !.fault = lsOut = "fault", !.last = "none",
                        !.changed = FALSE]
  /\ lastSet' = Norm(lastSet, ls', idb)
  /\ lastReturn' = NoReturn
  /\ UNCHANGED <<listeners, report, now, settings, enabled, events, idb, idbConn, calls>>

\* cacheManager.clearAll after await storageCache.clear().
ClearAllDone(out) ==
  /\ mgr.pc = "clearing"
  /\ idbQueue # <<>> /\ NextReq.op = "clear"
  /\ out \in IdbOutcomes
  /\ idb' = IF out = "ok" THEN ClearedStore(idb, NextReq.fk) ELSE idb
  /\ idbQueue' = Tail(idbQueue)
  /\ idbConn' = ConnAfter(out)
  /\ ops' = ops + IdbNewFault(out)
  /\ ops' <= MaxOps
  /\ events' = IF out # "reqFail" /\ settings.enableAnalytics
                 THEN clearEvents(events) ELSE events
  /\ mgr' = [mgr EXCEPT !.pc = "idle",
                        !.fault = @ \/ out # "ok",
                        !.last = IF out = "reqFail" THEN "rejected" ELSE "resolved"]
  /\ lastSet' = Norm(lastSet, ls, idb')
  /\ lastReturn' = NoReturn
  /\ UNCHANGED <<listeners, report, now, settings, enabled, memory, ls, calls>>

\* cacheManager.updateSettings({field: b})
UpdateSettings(field, b) ==
  /\ settings' = [settings EXCEPT ![field] = b]
  /\ settings' # settings
  /\ ops < MaxOps
  /\ ops' = ops + 1
  /\ mgr' = IF mgr.pc = "clearing" THEN [mgr EXCEPT !.changed = TRUE] ELSE mgr
  /\ lastReturn' = NoReturn
  /\ UNCHANGED <<listeners, report, now, enabled, events, memory, ls, idb, idbConn,
                 idbQueue, calls, lastSet>>

\* cacheAnalytics.setEnabled(b)
SetEnabled(b) ==
  /\ enabled' = b
  /\ enabled' # enabled
  /\ ops < MaxOps
  /\ ops' = ops + 1
  /\ lastReturn' = NoReturn
  /\ UNCHANGED <<listeners, report, now, settings, events, memory, ls, idb, idbConn,
                 idbQueue, calls, mgr, lastSet>>

\* Time passes.
Tick(d) ==
  /\ ops < MaxOps
  /\ now' = now + d
  /\ ops' = ops + 1
  /\ lastReturn' = NoReturn
  /\ UNCHANGED <<listeners, report, settings, enabled, events, memory, ls, idb, idbConn,
                 idbQueue, calls, mgr, lastSet>>

Next ==
  \/ \E c \in 1..MaxInFlight, u \in Urls, o \in ApiCallOptions, l \in LsOutcomes :
       Start(c, u, o, l)
  \/ \E c \in 1..MaxInFlight, v \in Values, l \in LsOutcomes : FetchOk(c, v, l)
  \/ \E c \in 1..MaxInFlight, f \in NetFailures, l \in LsOutcomes : FetchFail(c, f, l)
  \/ \E c \in 1..MaxInFlight, l \in LsOutcomes : BackoffDone(c, l)
  \/ \E c \in 1..MaxInFlight, i \in IdbOutcomes, l \in LsOutcomes :
       StorageProbeDone(c, i, l)
  \/ \E c \in 1..MaxInFlight, i \in IdbOutcomes : FallbackProbeDone(c, i)
  \/ \E c \in 1..MaxInFlight, i \in IdbOutcomes, l \in LsOutcomes :
       CacheWriteDone(c, i, l)
  \/ \E c \in 1..MaxInFlight, v \in Values, l \in LsOutcomes : PrefetchOk(c, v, l)
  \/ \E c \in 1..MaxInFlight, f \in NetFailures : PrefetchFail(c, f)
  \/ \E c \in 1..MaxInFlight, i \in IdbOutcomes : PrefetchWriteDone(c, i)
  \/ \E i \in IdbOutcomes : ExpiredRemoveDone(i)
  \/ \E l \in LsOutcomes : ClearAllStart(l)
  \/ \E i \in IdbOutcomes : ClearAllDone(i)
  \/ \E f \in {"useMemoryCache", "useStorageCache", "enableAnalytics"},
        b \in BOOLEAN : UpdateSettings(f, b)
  \/ \E b \in BOOLEAN : SetEnabled(b)
  \/ \E d \in TimeSteps : Tick(d)

Spec == Init /\ [][Next]_vars

\* ------------------------------------------------- the analytics collector
\* The events callers of cacheAnalytics.trackEvent pass in.
EventInputs ==
  {[type |-> "hit", source |-> "memory", key |-> createCacheKey(UrlRaces)]}

\* cacheAnalytics.trackEvent(e), and the time d that passes before the next
\* operation.
TrackEvent(e, d) ==
  /\ now + d <= MaxClock
  /\ events' = trackEvent(events, e)
  /\ now' = now + d
  /\ lastReturn' = NoReturn
  /\ UNCHANGED <<listeners, report, ops, settings, enabled, memory, ls, idb, idbConn, idbQueue,
                 calls, mgr, lastSet>>

NextAnalytics == \E e \in EventInputs, d \in {0, 1} : TrackEvent(e, d)

SpecAnalytics == Init /\ [][NextAnalytics]_vars

\* ----------------------------------------------- cache-event listeners
\* The kinds a listener is registered for.
ListenerKinds == {"hit", "miss", "*"}

\* addCacheEventListener(kind, callback): the handler is registered on window
\* for 'cacheEvent'; invoked counts the calls of callback.
AddCacheEventListener(kind) ==
  /\ ops < MaxOps
  /\ ops' = ops + 1
  /\ listeners' = Append(listeners, [kind |-> kind, registered |-> TRUE,
                                     invoked |-> 0])
  /\ lastReturn' = NoReturn
  /\ UNCHANGED <<report, now, settings, enabled, events, memory, ls, idb, idbConn,
                 idbQueue, calls, mgr, lastSet>>

\* The function addCacheEventListener returned is called:
\* window.removeEventListener('cacheEvent', handler).
Unsubscribe(i) ==
  /\ i \in 1..Len(listeners)
  /\ listeners[i].registered
  /\ listeners' = [listeners EXCEPT ![i].registered = FALSE]
  /\ lastReturn' = NoReturn
  /\ UNCHANGED <<report, now, ops, settings, enabled, events, memory, ls, idb,
                 idbConn, idbQueue, calls, mgr, lastSet>>

NextListeners ==
  \/ \E kind \in ListenerKinds : AddCacheEventListener(kind)
  \/ \E i \in 1..MaxOps : Unsubscribe(i)
  \/ \E e \in EventInputs : TrackEvent(e, 0)

\* Listeners are registered and removed while the collector records events.
SpecListeners == Init /\ [][NextListeners]_vars

\* ------------------------------------------------ the analytics statistics
\* A number the code computes by a division, kept exact.  With at most
\* maxEvents events no quotient is closer to one of the thresholds below than
\* a double can tell apart, so the comparisons come out as in the code.
Frac(n, d) == [num |-> n, den |-> d]
Lt(a, b) == a.num * b.den < b.num * a.den
Gt(a, b) == Lt(b, a)

\* An optional number argument: left out, or the number ms.
Undefined == [undefined |-> TRUE]
Window(ms) == [ms |-> ms]
\* The test the conditional operator makes of a number | undefined.
TruthyNumber(w) == w # Undefined /\ w.ms # 0

RECURSIVE Sum(_)
Sum(durations) ==
  IF durations = <<>> THEN 0 ELSE Head(durations).duration + Sum(Tail(durations))

\* A hit rate that is 0 as long as nothing missed.
hitRateWhenMissed(hits, misses) ==
  IF misses > 0 THEN Frac(hits, hits + misses) ELSE Frac(0, 1)

\* getStats: hits + misses > 0 ? hits / (hits + misses) : 0
hitRate(hits, misses) ==
  IF hits + misses > 0 THEN Frac(hits, hits + misses) ELSE Frac(0, 1)

\* CacheAnalytics.getStats(timeWindow), without the byType and bySource
\* tallies.
getStats(timeWindow) ==
  LET filteredEvents ==
        IF TruthyNumber(timeWindow)
          THEN SelectSeq(events, LAMBDA e : now - e.timestamp < timeWindow.ms)
          ELSE events
      hits == Len(SelectSeq(filteredEvents, LAMBDA e : e.type = "hit"))
      misses == Len(SelectSeq(filteredEvents, LAMBDA e : e.type = "miss"))
      errors == Len(SelectSeq(filteredEvents, LAMBDA e : e.type = "error"))
      responseTimes ==
        SelectSeq(filteredEvents, LAMBDA e : "duration" \in DOMAIN e)
      averageResponseTime ==
        IF Len(responseTimes) > 0
          THEN Frac(Sum(responseTimes), Len(responseTimes))
          ELSE Frac(0, 1)
  IN [hits |-> hits, misses |-> misses, hitRate |-> hitRate(hits, misses),
      averageResponseTime |-> averageResponseTime, errors |-> errors]

\* A classification whose thresholds include their bounds.
statusInclusive(hr, avg, er) ==
  IF ~Lt(hr, Frac(8, 10)) /\ ~Gt(avg, Frac(200, 1)) /\ ~Gt(er, Frac(1, 100))
    THEN "excellent"
  ELSE IF ~Lt(hr, Frac(6, 10)) /\ ~Gt(avg, Frac(400, 1)) /\ ~Gt(er, Frac(5, 100))
    THEN "good"
  ELSE IF ~Lt(hr, Frac(4, 10)) /\ ~Gt(avg, Frac(700, 1)) /\ ~Gt(er, Frac(1, 10))
    THEN "fair"
  ELSE "poor"

\* getHealthReport: the status from the hit rate, the average response time
\* and the error rate.
status(hr, avg, er) ==
  IF Gt(hr, Frac(8, 10)) /\ Lt(avg, Frac(200, 1)) /\ Lt(er, Frac(1, 100))
    THEN "excellent"
  ELSE IF Gt(hr, Frac(6, 10)) /\ Lt(avg, Frac(400, 1)) /\ Lt(er, Frac(5, 100))
    THEN "good"
  ELSE IF Gt(hr, Frac(4, 10)) /\ Lt(avg, Frac(700, 1)) /\ Lt(er, Frac(1, 10))
    THEN "fair"
  ELSE "poor"

\* CacheAnalytics.getHealthReport; a recommendation is named by what it is
\* about.
getHealthReport ==
  LET stats == getStats(Undefined)
      totalRequests == stats.hits + stats.misses
      errorRate ==
        IF totalRequests > 0 THEN Frac(stats.errors, totalRequests) ELSE Frac(0, 1)
      recommendations ==
        {r \in {"hitRate", "responseTime", "errorRate"} :
           \/ r = "hitRate" /\ Lt(stats.hitRate, Frac(5, 10))
           \/ r = "responseTime" /\ Gt(stats.averageResponseTime, Frac(500, 1))
           \/ r = "errorRate" /\ Gt(errorRate, Frac(5, 100))}
  IN [status |-> status(stats.hitRate, stats.averageResponseTime, errorRate),
      hitRate |-> stats.hitRate,
      avgResponseTime |-> stats.averageResponseTime,
      errorRate |-> errorRate,
      recommendations |-> recommendations]

\* cacheAnalytics.getStats(w) is called.
GetStats(w) ==
  /\ report' = [kind |-> "stats", window |-> w, at |-> now, stats |-> getStats(w)]
  /\ lastReturn' = NoReturn
  /\ UNCHANGED <<listeners, now, ops, settings, enabled, events, memory, ls, idb, idbConn,
                 idbQueue, calls, mgr, lastSet>>

\* cacheAnalytics.getHealthReport() is called.
GetHealthReport ==
  /\ report' = [kind |-> "health", at |-> now, health |-> getHealthReport]
  /\ lastReturn' = NoReturn
  /\ UNCHANGED <<listeners, now, ops, settings, enabled, events, memory, ls, idb, idbConn,
                 idbQueue, calls, mgr, lastSet>>

\* The event logs the statistics are computed from: hits hits of the memory
\* cache that took duration ms each, misses misses, errors network errors
\* that took ErrorDuration ms each, one 'set'; the newest recent of them
\* tracked at time 1, the others at time 0.
ErrorDuration == 1000
HitCounts == {0, 1, 2, 3, 4, 5, 9, 17}
MissCounts == {0, 1, 2, 3, 4}
ErrorCounts == {0, 1, 2}
Durations == {0, 199, 200, 399, 400, 699, 700}
RecentCounts == {0, 1}
Windows == {Undefined, Window(0), Window(1), Window(2)}

EventLog(h, m, e, duration, recent) ==
  LET k == createCacheKey(UrlRaces)
      kinds ==
        [i \in 1..h |-> [type |-> "hit", source |-> "memory", key |-> k,
                         duration |-> duration]]
        \o [i \in 1..m |-> [type |-> "miss", source |-> "network", key |-> k]]
        \o [i \in 1..e |-> [type |-> "error", source |-> "network", key |-> k,
                            duration |-> ErrorDuration]]
        \o <<[type |-> "set", source |-> "memory", key |-> k]>>
  IN [i \in 1..Len(kinds) |->
        [f \in DOMAIN kinds[i] \cup {"timestamp"} |->
           IF f = "timestamp" THEN (IF i <= recent THEN 1 ELSE 0)
           ELSE kinds[i][f]]]

EventLogs ==
  {EventLog(h, m, e, d, r) :
     h \in HitCounts, m \in MissCounts, e \in ErrorCounts, d \in Durations,
     r \in RecentCounts}

\* The page has tracked the events of one of the logs.
InitStats ==
  /\ now = 1
  /\ ops = 0
  /\ settings = [useMemoryCache |-> TRUE, useStorageCache |-> TRUE,
                 enableLogging |-> TRUE, enableAnalytics |-> TRUE]
  /\ enabled = TRUE
  /\ events \in EventLogs
  /\ memory = [k \in Keys |-> NoEntry]
  /\ ls = [fk \in FullKeys |-> NoEntry]
  /\ idb = [fk \in FullKeys |-> NoEntry]
  /\ idbConn = "unopened"
  /\ idbQueue = <<>>
  /\ calls = [c \in 1..MaxInFlight |-> InitCall]
  /\ mgr = InitMgr
  /\ lastSet = [k \in Keys |-> NoEntry]
  /\ lastReturn = NoReturn
  /\ report = NoReport
  /\ listeners = <<>>

NextStats ==
  \/ \E w \in Windows : GetStats(w)
  \/ GetHealthReport
  \/ Tick(1)

SpecStats == InitStats /\ [][NextStats]_vars

\* ------------------------------------------------------- a reloaded page
\* The page is loaded while the storage cache holds, for the races, a value
\* an earlier page load fetched at time 0 and stored with the default
\* cacheTTL: the memory cache, the event log and the IndexedDB connection
\* are new.  It is loaded at once, or when the stored value is about to
\* expire.
ReloadTimes == {0, STORAGE_DEFAULT_TTL}
StoredEarlier(v) == [data |-> v, timestamp |-> 0, ttl |-> STORAGE_DEFAULT_TTL]

InitReload ==
  /\ now \in ReloadTimes
  /\ ops = 0
  /\ settings = [useMemoryCache |-> TRUE, useStorageCache |-> TRUE,
                 enableLogging |-> TRUE, enableAnalytics |-> TRUE]
  /\ enabled = TRUE
  /\ events = <<>>
  /\ memory = [k \in Keys |-> NoEntry]
  /\ \E v \in Values :
       LET k == createCacheKey(UrlRaces)
           backend == IF UseLocalStorage(v) THEN "localStorage" ELSE "indexedDB"
       IN /\ ls = [fk \in FullKeys |->
                     IF fk = getFullKey(k) /\ backend = "localStorage"
                       THEN StoredEarlier(v) ELSE NoEntry]
          /\ idb = [fk \in FullKeys |->
                      IF fk = getFullKey(k) /\ backend = "indexedDB"
                        THEN StoredEarlier(v) ELSE NoEntry]
          /\ lastSet = [j \in Keys |->
                          IF j = k
                            THEN [data |-> v, timestamp |-> 0,
                                  ttl |-> STORAGE_DEFAULT_TTL, backend |-> backend]
                            ELSE NoEntry]
  /\ idbConn = "unopened"
  /\ idbQueue = <<>>
  /\ calls = [c \in 1..MaxInFlight |-> InitCall]
  /\ mgr = InitMgr
  /\ lastReturn = NoReturn
  /\ report = NoReport
  /\ listeners = <<>>

\* Calls with the default options, with a network and storage backends that
\* answer every request.
NextReload ==
  \/ \E c \in 1..MaxInFlight : Start(c, UrlRaces, DefaultOptions, "ok")
  \/ \E c \in 1..MaxInFlight, v \in Values : FetchOk(c, v, "ok")
  \/ \E c \in 1..MaxInFlight : StorageProbeDone(c, "ok", "ok")
  \/ \E c \in 1..MaxInFlight : CacheWriteDone(c, "ok", "ok")
  \/ ExpiredRemoveDone("ok")
  \/ \E d \in TimeSteps : Tick(d)

SpecReload == InitReload /\ [][NextReload]_vars

\* ------------------------------------------------------ calls that finish
\* Non-prefetch calls with every number of retries up to one more than the
\* default, with and without the caches, on the reloaded page; the network
\* and the storage backends may fail, and time passes while a call backs off.
NextLive ==
  \/ \E c \in 1..MaxInFlight, r \in 0..(MAX_RETRIES + 1), u \in BOOLEAN,
        l \in LsOutcomes :
       /\ ops < MaxLiveOps
       /\ Start(c, UrlRaces,
                [DefaultOptions EXCEPT !.retries = r, !.useCache = u], l)
  \/ \E c \in 1..MaxInFlight, v \in Values, l \in LsOutcomes : FetchOk(c, v, l)
  \/ \E c \in 1..MaxInFlight, f \in NetFailures, l \in LsOutcomes : FetchFail(c, f, l)
  \/ \E c \in 1..MaxInFlight, l \in LsOutcomes : BackoffDone(c, l)
  \/ \E c \in 1..MaxInFlight, i \in IdbOutcomes, l \in LsOutcomes :
       StorageProbeDone(c, i, l)
  \/ \E c \in 1..MaxInFlight, i \in IdbOutcomes : FallbackProbeDone(c, i)
  \/ \E c \in 1..MaxInFlight, i \in IdbOutcomes, l \in LsOutcomes :
       CacheWriteDone(c, i, l)
  \/ \E i \in IdbOutcomes : ExpiredRemoveDone(i)

\* Every network attempt completes, with a response or a failure; every
\* backoff timer fires; every IndexedDB request completes.
Completes(c) ==
  \/ \E v \in Values, l \in LsOutcomes : FetchOk(c, v, l)
  \/ \E f \in NetFailures, l \in LsOutcomes : FetchFail(c, f, l)
  \/ \E l \in LsOutcomes : BackoffDone(c, l)
  \/ \E i \in IdbOutcomes, l \in LsOutcomes : StorageProbeDone(c, i, l)
  \/ \E i \in IdbOutcomes : FallbackProbeDone(c, i)
  \/ \E i \in IdbOutcomes, l \in LsOutcomes : CacheWriteDone(c, i, l)
Completion ==
  /\ \A c \in 1..MaxInFlight : WF_vars(Completes(c))
  /\ WF_vars(\E i \in IdbOutcomes : ExpiredRemoveDone(i))

SpecLive == InitReload /\ [][NextLive]_vars /\ Completion

\* ------------------------------------------------- the cacheManager facade
\* The per-resource fetch functions: one apiCall each, with the resource's
\* cacheTTL.
fetchRaces ==
  [url |-> UrlRaces, opts |-> [DefaultOptions EXCEPT !.cacheTTL = RACE_DATA_TTL]]
fetchDrivers ==
  [url |-> UrlDrivers,
   opts |-> [DefaultOptions EXCEPT !.cacheTTL = DRIVER_DATA_TTL]]
fetchSeasonDriverStandings ==
  [url |-> UrlDriverStandings,
   opts |-> [DefaultOptions EXCEPT !.cacheTTL = STANDINGS_TTL]]
fetchSeasonConstructorStandings ==
  [url |-> UrlConstructorStandings,
   opts |-> [DefaultOptions EXCEPT !.cacheTTL = STANDINGS_TTL]]
fetchNews ==
  [url |-> UrlNews, opts |-> [DefaultOptions EXCEPT !.cacheTTL = NEWS_TTL]]

\* The fetch functions the callers of this spec use directly.
Fetchers == {fetchRaces, fetchDrivers}

\* The arguments of clearByType and of refresh that are exercised.
TypeRaces == <<"r","a","c","e","s">>
TypeDrivers == <<"d","r","i","v","e","r","s">>
Types == {TypeRaces, TypeDrivers}
RefreshKeys == {"races:current", "standings", "news", "drivers"}

\* A refresh that fetches the news for a key it does not know.
refreshDefaultNews(key) ==
  CASE key = "races:current" -> <<fetchRaces>>
    [] key = "standings" ->
         <<fetchSeasonDriverStandings, fetchSeasonConstructorStandings>>
    [] OTHER -> <<fetchNews>>

\* cacheManager.refresh, the switch: the fetch functions called for key, none
\* for a key of the default branch, which throws.
refresh(key) ==
  CASE key = "races:current" -> <<fetchRaces>>
    [] key = "standings" ->
         <<fetchSeasonDriverStandings, fetchSeasonConstructorStandings>>
    [] key = "news" -> <<fetchNews>>
    [] OTHER -> <<>>

FreeSlots == {c \in DOMAIN calls : ~InFlight(c)}
Lowest(S) == CHOOSE c \in S : \A d \in S : c <= d

\* cacheManager.refresh(key) up to its await: every fetch function of the
\* key's case is called in turn and runs to its first suspension point.
Refresh(key, lsOut1, lsOut2) ==
  LET targets == refresh(key)
  IN /\ ops < MaxOps
     /\ Len(targets) <= Cardinality(FreeSlots)
     /\ lastReturn' = NoReturn
     /\ UNCHANGED <<listeners, report, now, settings, enabled, idbConn>>
     /\ IF targets = <<>>
          THEN /\ mgr' = [mgr EXCEPT !.refreshed =
                            Append(@, [key |-> key, outcome |-> "Unknown refresh key"])]
               /\ ops' = ops + 1
               /\ UNCHANGED <<events, memory, ls, idb, idbQueue, calls, lastSet>>
          ELSE LET c1 == Lowest(FreeSlots)
                   x1 == apiCallStart(Ctx(c1), targets[1].url, targets[1].opts,
                                      key, lsOut1)
                   x2 == IF Len(targets) = 1 THEN x1
                         ELSE apiCallStart(
                                [x1 EXCEPT !.id = Lowest(FreeSlots \ {c1}),
                                           !.val = Null, !.returned = FALSE],
                                targets[2].url, targets[2].opts, key, lsOut2)
               IN /\ calls' = [calls EXCEPT ![c1] = x1.call, ![x2.id] = x2.call]
                  /\ memory' = x2.memory
                  /\ ls' = x2.ls
                  /\ idb' = x2.idb
                  /\ idbQueue' = x2.q
                  /\ events' = x2.events
                  /\ lastSet' = Norm(x2.lastSet, x2.ls, x2.idb)
                  /\ mgr' = [mgr EXCEPT
                              !.refreshed = Append(@, [key |-> key,
                                                       outcome |-> "awaiting"]),
                              !.overlap = @ \/ mgr.pc # "idle"]
                  /\ ops' = ops + 1 + x2.nf
                  /\ ops' <= MaxOps

\* cacheManager.clearByType(type) up to await storageCache.clear(type):
\* localStorage is cleared of the keys that start with prefix + type, the
\* IndexedDB clear for the same prefix is issued.
ClearByTypeStart(type, lsOut) ==
  /\ mgr.pc = "idle"
  /\ lsOut \in LsOutcomes
  /\ ops' = ops + 1 + (IF lsOut = "fault" THEN 1 ELSE 0)
  /\ ops' <= MaxOps
  /\ ls' = IF lsOut = "ok" THEN ClearedStore(ls, prefix \o type) ELSE ls
  /\ idbQueue' = Append(idbQueue, [op |-> "clear", fk |-> prefix \o type,
                                   owner |-> -1, item |-> NoEntry])
  /\ mgr' = [mgr EXCEPT !.pc = "clearingType", !.type = type,
                        !.overlap = \E c \in DOMAIN calls : InFlight(c),
                        !.fault = lsOut = "fault", !.last = "none",
                        !.changed = FALSE]
  /\ lastSet' = Norm(lastSet, ls', idb)
  /\ lastReturn' = NoReturn
  /\ UNCHANGED <<listeners, report, now, settings, enabled, events, memory, idb, idbConn, calls>>

\* cacheManager.clearByType after await storageCache.clear(type).
ClearByTypeDone(out) ==
  /\ mgr.pc = "clearingType"
  /\ idbQueue # <<>> /\ NextReq.op = "clear"
  /\ out \in IdbOutcomes
  /\ idb' = IF out = "ok" THEN ClearedStore(idb, NextReq.fk) ELSE idb
  /\ idbQueue' = Tail(idbQueue)
  /\ idbConn' = ConnAfter(out)
  /\ ops' = ops + IdbNewFault(out)
  /\ ops' <= MaxOps
  /\ mgr' = [mgr EXCEPT !.pc = "idle",
                        !.fault = @ \/ out # "ok",
                        !.last = IF out = "reqFail" THEN "rejected" ELSE "resolved"]
  /\ lastSet' = Norm(lastSet, ls, idb')
  /\ lastReturn' = NoReturn
  /\ UNCHANGED <<listeners, report, now, settings, enabled, events, memory, ls, calls>>

InitFacade ==
  /\ now = 0
  /\ ops = 0
  /\ settings = [useMemoryCache |-> TRUE, useStorageCache |-> TRUE,
                 enableLogging |-> TRUE, enableAnalytics |-> TRUE]
  /\ enabled = TRUE
  /\ events = <<>>
  /\ memory = [k \in Keys |-> NoEntry]
  /\ ls = [fk \in FullKeys |-> NoEntry]
  /\ idb = [fk \in FullKeys |-> NoEntry]
  /\ idbConn = "unopened"
  /\ idbQueue = <<>>
  /\ calls = [c \in 1..MaxParallel |-> InitCall]
  /\ mgr = InitMgr
  /\ lastSet = [k \in Keys |-> NoEntry]
  /\ lastReturn = NoReturn
  /\ report = NoReport
  /\ listeners = <<>>

NextFacade ==
  \/ \E c \in 1..MaxParallel, f \in Fetchers : Start(c, f.url, f.opts, "ok")
  \/ \E c \in 1..MaxParallel, v \in Values : FetchOk(c, v, "ok")
  \/ \E c \in 1..MaxParallel : StorageProbeDone(c, "ok", "ok")
  \/ \E c \in 1..MaxParallel : CacheWriteDone(c, "ok", "ok")
  \/ \E key \in RefreshKeys : Refresh(key, "ok", "ok")
  \/ \E t \in Types : ClearByTypeStart(t, "ok")
  \/ ClearByTypeDone("ok")

\* The facade and the fetch functions, with a network and storage backends
\* that answer every request.
SpecFacade == InitFacade /\ [][NextFacade]_vars

\* ----------------------------------------------------- two driver profiles
\* fetchDriverProfile(driverId) for the two ids.
ProfileFetchers ==
  {[url |-> u, opts |-> [DefaultOptions EXCEPT !.cacheTTL = DRIVER_DATA_TTL]] :
     u \in {UrlProfileUnderscore, UrlProfileHyphen}}

NextProfiles ==
  \/ \E c \in 1..MaxParallel, f \in ProfileFetchers :
       Start(c, f.url, f.opts, "ok")
  \/ \E c \in 1..MaxParallel, v \in Values : FetchOk(c, v, "ok")
  \/ \E c \in 1..MaxParallel : StorageProbeDone(c, "ok", "ok")
  \/ \E c \in 1..MaxParallel : CacheWriteDone(c, "ok", "ok")

\* The profiles of two drivers are fetched, with a network and storage
\* backends that answer every request.
SpecProfiles == InitFacade /\ [][NextProfiles]_vars

\* ------------------------------------------- a warm cache in a shared store
\* Keys of the host stores that other code of the page wrote: they do not
\* start with the layer's prefix.
ForeignKeys == {<<"t","h","e","m","e">>, TypeRaces}
ForeignItem == [data |-> JsonSmall, timestamp |-> 0, ttl |-> 0]
StoreKeys == FullKeys \cup ForeignKeys
WarmUrls == {UrlRaces, UrlDrivers}

\* What apiCall(url) with the default options left at time 0 after it fetched
\* v: the entry of the memory cache, and the stored item.
WarmEntry(v) ==
  [data |-> v, timestamp |-> 0, ttl |-> STORAGE_DEFAULT_TTL,
   freshUntil |-> STORAGE_DEFAULT_TTL]
WarmValue(k) == IF k = createCacheKey(UrlRaces) THEN JsonLarge ELSE JsonSmall
WarmStore(backend) ==
  [fk \in StoreKeys |->
     IF fk \in ForeignKeys THEN ForeignItem
     ELSE IF \E u \in WarmUrls :
               /\ fk = getFullKey(createCacheKey(u))
               /\ UseLocalStorage(WarmValue(createCacheKey(u)))
                    = (backend = "localStorage")
       THEN StoredEarlier(WarmValue(CHOOSE k \in Keys : getFullKey(k) = fk))
     ELSE NoEntry]

\* The page fetched the races (a large value) and the drivers (a small one)
\* at time 0 with the default options, and the analytics log was cleared
\* since; the host stores hold keys of other code as well.
InitWarm ==
  /\ now = 0
  /\ ops = 0
  /\ settings = [useMemoryCache |-> TRUE, useStorageCache |-> TRUE,
                 enableLogging |-> TRUE, enableAnalytics |-> TRUE]
  /\ enabled = TRUE
  /\ events = <<>>
  /\ memory = [k \in Keys |->
                 IF k \in {createCacheKey(u) : u \in WarmUrls}
                   THEN WarmEntry(WarmValue(k)) ELSE NoEntry]
  /\ ls = WarmStore("localStorage")
  /\ idb = WarmStore("indexedDB")
  /\ idbConn = "open"
  /\ idbQueue = <<>>
  /\ calls = [c \in 1..MaxParallel |-> InitCall]
  /\ mgr = InitMgr
  /\ lastSet = [k \in Keys |->
                  IF k \in {createCacheKey(u) : u \in WarmUrls}
                    THEN [data |-> WarmValue(k), timestamp |-> 0,
                          ttl |-> STORAGE_DEFAULT_TTL,
                          backend |-> IF UseLocalStorage(WarmValue(k))
                                        THEN "localStorage" ELSE "indexedDB"]
                    ELSE NoEntry]
  /\ lastReturn = NoReturn
  /\ report = NoReport
  /\ listeners = <<>>

NextWarm ==
  \/ \E c \in 1..MaxParallel, u \in WarmUrls, f \in BOOLEAN :
       Start(c, u, [DefaultOptions EXCEPT !.forceFresh = f], "ok")
  \/ \E c \in 1..MaxParallel, v \in {JsonSmall, JsonLarge} : FetchOk(c, v, "ok")
  \/ \E c \in 1..MaxParallel : StorageProbeDone(c, "ok", "ok")
  \/ \E c \in 1..MaxParallel : CacheWriteDone(c, "ok", "ok")
  \/ ExpiredRemoveDone("ok")
  \/ ClearAllStart("ok")
  \/ ClearAllDone("ok")
  \/ \E t \in Types : ClearByTypeStart(t, "ok")
  \/ ClearByTypeDone("ok")
  \/ \E d \in {MEMORY_TTL + 1, STORAGE_DEFAULT_TTL + 1} : Tick(d)

\* Concurrent calls, clears and the passing of time on the warm cache, with
\* a network and storage backends that answer every request.
SpecWarm == InitWarm /\ [][NextWarm]_vars

\* ----------------------------------------------------------------- claims
AllFailed(k) == k.atts = [i \in 1..(k.opts.retries + 1) |-> "fail"]
NoClearAll == mgr.pc = "idle" /\ mgr.last = "none"
Empty(store) == \A key \in DOMAIN store : store[key] = NoEntry

\* C1: a resolve that found a logically expired Durable Tier entry for its
\* key when it was called, and whose maxRetries+1 network attempts all
\* failed, returns that expired value instead of failing.
StaleFallbackServesExpired ==
  \A c \in 1..MaxInFlight :
    LET k == calls[c]
    IN (/\ k.pc \in {"done", "failed"}
        /\ ~k.opts.prefetch
        /\ Truthy(k.staleAtStart)
        /\ AllFailed(k)
        /\ ~k.fault /\ k.sawOff = {}
        /\ NoClearAll)
       => k.ret = "value" /\ k.result = k.staleAtStart

\* C2: a Durable Tier backend failure during resolve never makes resolve
\* fail and never causes a further network attempt after an attempt that
\* succeeded: an attempt that succeeded is the last one and ends in a value.
DurableFailureContained ==
  \A c \in 1..MaxInFlight :
    LET k == calls[c]
    IN ~k.opts.prefetch =>
         \A i \in 1..Len(k.atts) :
           k.atts[i] = "ok" =>
             /\ i = Len(k.atts)
             /\ k.pc \notin {"backoff", "fetch", "fbIdbGet", "failed"}
             /\ k.ret # "error"

\* C3: a non-prefetch resolve fails only if all maxRetries+1 network attempts
\* failed and the Durable Tier held no value for the key.
FailsOnlyWhenExhaustedAndEmpty ==
  \A c \in 1..MaxInFlight :
    LET k == calls[c]
    IN (k.pc = "failed" /\ ~k.opts.prefetch) => AllFailed(k) /\ ~k.fbHad

\* C4: at most maxRetries+1 attempts; the wait after failed attempt i is
\* baseDelay * 2^i and none follows the last attempt; with maxRetries = 2,
\* two failures followed by a success give 3 attempts, 2 delays and a value.
RetryBackoff ==
  \A c \in 1..MaxInFlight :
    LET k == calls[c]
    IN /\ Len(k.atts) <= k.opts.retries + 1
       /\ Len(k.delays) <= k.opts.retries
       /\ \A i \in 1..Len(k.delays) : k.delays[i] = RETRY_DELAY * Pow2(i - 1)
       /\ (k.opts.retries = MAX_RETRIES /\ k.atts = <<"fail", "fail", "ok">>
             /\ k.pc \in Settled)
          => k.ret = "value" /\ Len(k.delays) = 2

\* C5: when resolve(k) returns a network-fetched v it has written v into the
\* Fast Tier and the Durable Tier, and a resolve(k) issued immediately
\* afterwards returns v from the Fast Tier with no network attempt.
WriteThroughThenFastHit ==
  /\ (/\ lastReturn # NoReturn
      /\ lastReturn.ret = "value" /\ lastReturn.src = "network"
      /\ lastReturn.opts.useCache
      /\ ~lastReturn.fault /\ lastReturn.sawOff = {}
      /\ NoClearAll)
     => /\ memory[lastReturn.key] # NoEntry
        /\ memory[lastReturn.key].data = lastReturn.result
        /\ \E store \in {ls, idb} :
             /\ store[getFullKey(lastReturn.key)] # NoEntry
             /\ store[getFullKey(lastReturn.key)].data = lastReturn.result
  /\ \A c \in 1..MaxInFlight :
       LET k == calls[c]
       IN (/\ k.pc # "idle"
           /\ k.after # NoReturn
           /\ k.after.ret = "value" /\ k.after.src = "network"
           /\ k.after.opts.useCache
           /\ ~k.after.fault /\ k.after.sawOff = {}
           /\ k.after.at - k.after.fetchedAt <= MEMORY_TTL
           /\ k.opts = DefaultOptions
           /\ ~k.fault /\ k.sawOff = {}
           /\ NoClearAll)
          => /\ k.pc = "done" /\ k.src = "memory"
             /\ k.result = k.after.result
             /\ k.atts = <<>>

BackendAgnosticRead ==
  \A k \in Keys :
    (lastSet[k] # NoEntry /\ ~StorageExpired(lastSet[k]))
      => smartStorageGet(k) = lastSet[k].data

\* C8: a value whose serialized size is below the threshold is stored in
\* localStorage only, a value at or above it in IndexedDB only.
SizeRouting ==
  /\ \A fk \in FullKeys :
       /\ ls[fk] # NoEntry => ls[fk].data.size < sizeThreshold
       /\ idb[fk] # NoEntry => idb[fk].data.size >= sizeThreshold
  /\ \A k \in Keys :
       lastSet[k] # NoEntry =>
         (lastSet[k].backend = "localStorage"
            <=> lastSet[k].data.size < sizeThreshold)

\* Values one byte below the threshold and exactly at it have both been set.
SizeRoutingWitness ==
  \E fk \in FullKeys :
    /\ ls[fk] # NoEntry /\ ls[fk].data.size = sizeThreshold - 1
    /\ idb[fk] # NoEntry /\ idb[fk].data.size = sizeThreshold

\* C9: when clearAll() completes with no other request in flight, the Fast
\* Tier, both Durable Tier backends and the analytics event log are empty,
\* for every value of the settings.
ClearAllEmptiesEverything ==
  [][(/\ mgr.pc = "clearing" /\ mgr'.pc = "idle"
      /\ mgr'.last = "resolved"
      /\ ~mgr'.overlap /\ ~mgr'.fault /\ ~mgr'.changed
      /\ \A c \in 1..MaxInFlight : ~InFlight(c))
     => /\ Empty(memory') /\ Empty(ls') /\ Empty(idb')
        /\ events' = <<>>]_vars

\* C10: clearAll() attempts all three clears even when one fails: the
\* analytics event log is cleared although the Durable Tier clear failed.
ClearAllAttemptsEveryClear ==
  [][(/\ mgr.pc = "clearing" /\ mgr'.pc = "idle"
      /\ settings.enableAnalytics
      /\ ~mgr'.overlap
      /\ \A c \in 1..MaxInFlight : ~InFlight(c))
     => /\ Empty(memory')
        /\ events' = <<>>]_vars

Durable == {"localStorage", "indexedDB"}
Bypassed(k) == ~k.opts.useCache \/ k.opts.forceFresh
NetworkStarted(k) == k.pc \in {"fetch", "backoff", "idbSet"} \/ k.atts # <<>>

\* C12: within one resolve call the probes are sequential, Fast Tier, then
\* Durable Tier, then network: the Durable probe starts only after the Fast
\* probe reported a miss, a network attempt starts only after both probes
\* reported a miss or caching was bypassed, and a Fast Tier hit returns with
\* no Durable probe and no network attempt.
SequentialProbes ==
  \A c \in 1..MaxInFlight :
    LET k == calls[c]
    IN (k.pc # "idle" /\ ~k.opts.prefetch) =>
         /\ (k.probed \cap Durable # {} /\ ~k.fbRead)
              => k.fast = "miss" \/ ~k.cfg.useMemoryCache
         /\ (NetworkStarted(k) /\ ~k.fbRead)
              => Bypassed(k) \/ (k.fast # "hit" /\ k.hit = NoEntry)
         /\ k.fast = "hit"
              => /\ k.pc = "done" /\ k.src = "memory"
                 /\ k.probed = {"memory"}
                 /\ k.atts = <<>>

\* C13: resolve returns a value read by the stale-fallback path only after
\* all maxRetries+1 network attempts of the call have failed; when one of its
\* network attempts succeeded, the value it returns is the fetched one.
FreshOverStale ==
  \A c \in 1..MaxInFlight :
    LET k == calls[c]
    IN ~k.opts.prefetch =>
         /\ k.src = "stale" => AllFailed(k)
         /\ (k.pc = "done" /\ \E i \in 1..Len(k.atts) : k.atts[i] = "ok")
              => k.src = "network"

\* C15: a settings change made while a resolve call is suspended has no
\* effect on that call: the tiers it reads and writes are those enabled when
\* it started (a call started after the change uses the changed settings).
SettingsSnapshot ==
  \A c \in 1..MaxInFlight :
    LET k == calls[c]
        used == k.probed \cup k.wrote
    IN (k.pc # "idle" /\ ~k.opts.prefetch) =>
         /\ k.cfg.useMemoryCache => "memory" \notin k.sawOff
         /\ k.cfg.useStorageCache => "storage" \notin k.sawOff
         /\ ~k.cfg.useMemoryCache => "memory" \notin used
         /\ ~k.cfg.useStorageCache => used \cap Durable = {}

\* C17: a resolve call with prefetchOnly never fails towards its caller,
\* whatever the outcome of the network fetch and of the cache writes, and it
\* returns before any outcome of the network fetch is known.
PrefetchNeverSurfaces ==
  /\ \A c \in 1..MaxInFlight :
       LET k == calls[c]
       IN (k.pc # "idle" /\ k.opts.prefetch) =>
            /\ k.pc \in {"pfFetch", "pfIdbSet", "pfDone"}
            /\ k.ret = "value" /\ k.result = EmptyObject
            /\ k.src = "prefetch"
  /\ (lastReturn # NoReturn /\ lastReturn.opts.prefetch)
       => \E c \in 1..MaxInFlight :
            calls[c].pc = "pfFetch" /\ calls[c].atts = <<>>

\* Prefetch calls have ended after a failed fetch and after a failed
\* IndexedDB write, and the caller had its value.
PrefetchNeverSurfacesWitness ==
  \E c \in 1..MaxInFlight :
    /\ calls[c].opts.prefetch /\ calls[c].pc = "pfDone"
    /\ calls[c].ret = "value"
    /\ calls[c].atts = <<"ok">> /\ calls[c].fault
    /\ \E i \in 1..Len(events) :
         events[i].type = "error" /\ events[i].source = "network"

\* C20: the analytics event log never holds more than maxEvents events, it
\* lists them newest first, and an event arriving at a full log drops exactly
\* the oldest one: the events behind the new one are the previous log
\* without its last event.
BoundedNewestFirst ==
  [][/\ Len(events') <= maxEvents
     /\ \A i \in 1..(Len(events') - 1) :
          events'[i].timestamp >= events'[i + 1].timestamp
     /\ (events' # events /\ events' # <<>>)
          => /\ events'[1].timestamp = now
             /\ Tail(events') = IF Len(events) = maxEvents
                                  THEN SubSeq(events, 1, maxEvents - 1)
                                  ELSE events]_vars

\* The log is full and its oldest event is younger than the first event
\* tracked, at time 0: events have been dropped.
BoundedNewestFirstWitness ==
  /\ Len(events) = maxEvents
  /\ events[maxEvents].timestamp > 0

\* The keys of the resources of one type: those of the URLs API_BASE/type...
KeysOfType(type) ==
  {createCacheKey(u) :
     u \in {w \in AllUrls : startsWith(w, API_BASE \o <<"/">> \o type)}}
WellKnownKeys == {"races:current", "standings", "news"}
HasOk(k) == \E i \in 1..Len(k.atts) : k.atts[i] = "ok"

\* C11: clearByType("races") removes from both Durable Tier backends exactly
\* the entries of the "races" resource type and leaves every other entry
\* ("drivers" entries among them) in place: localStorage when the call is
\* made, IndexedDB when its clear request completes.
ClearByTypeRemovesType ==
  [][/\ (/\ mgr.pc = "idle" /\ mgr'.pc = "clearingType"
         /\ mgr'.type = TypeRaces /\ ~mgr'.fault)
        => \A k \in Keys :
             ls'[getFullKey(k)] = IF k \in KeysOfType(TypeRaces) THEN NoEntry
                                  ELSE ls[getFullKey(k)]
     /\ (/\ mgr.pc = "clearingType" /\ mgr'.pc = "idle"
         /\ mgr.type = TypeRaces /\ ~mgr'.fault)
        => \A k \in Keys :
             idb'[getFullKey(k)] = IF k \in KeysOfType(TypeRaces) THEN NoEntry
                                   ELSE idb[getFullKey(k)]]_vars

\* C14: when two concurrent resolve calls for the same key have both missed,
\* both fetched and both completed, the Fast Tier and the Durable Tier hold
\* the value of the last write: a Fast Tier get and a Durable Tier get for the
\* key return the same value.
ConcurrentLastWriteWins ==
  \A c, d \in DOMAIN calls :
    (/\ c # d /\ ops = 2
     /\ calls[c].key = calls[d].key
     /\ \A e \in {c, d} :
          /\ calls[e].pc = "done" /\ calls[e].src = "network"
          /\ calls[e].via = "caller" /\ ~calls[e].fault)
    => /\ memory[calls[c].key] # NoEntry
       /\ smartStorageGet(calls[c].key) = memory[calls[c].key].data

\* C18: refresh(key) with a well-known key forces a re-fetch: each call it
\* makes performs a network fetch, also when a fresh cached value exists, and
\* the caches then hold the fetched value.
RefreshForcesRefetch ==
  \A c \in DOMAIN calls :
    LET k == calls[c]
    IN (k.via \in WellKnownKeys /\ k.pc = "done") =>
         /\ k.src = "network" /\ HasOk(k)
         /\ (\A d \in DOMAIN calls \ {c} : calls[d].key # k.key)
              => /\ memory[k.key] # NoEntry /\ memory[k.key].data = k.result
                 /\ \E store \in {ls, idb} :
                      /\ store[getFullKey(k.key)] # NoEntry
                      /\ store[getFullKey(k.key)].data = k.result

\* C19: refresh(key) with a key outside the well-known set fails with an
\* unknown-key error, starts no network attempt and no retry, and leaves the
\* Fast Tier, the Durable Tier and the analytics log unchanged.
RefreshUnknownKeyFails ==
  [][(/\ Len(mgr'.refreshed) = Len(mgr.refreshed) + 1
      /\ mgr'.refreshed[Len(mgr'.refreshed)].key \notin WellKnownKeys)
     => /\ mgr'.refreshed[Len(mgr'.refreshed)].outcome = "Unknown refresh key"
        /\ UNCHANGED <<memory, ls, idb, idbQueue, events, calls>>]_vars

\* refresh was called with an unknown key while both tiers held entries and
\* events had been tracked, and it failed.
RefreshUnknownKeyFailsWitness ==
  /\ \E i \in 1..Len(mgr.refreshed) :
       /\ mgr.refreshed[i].key \notin WellKnownKeys
       /\ mgr.refreshed[i].outcome = "Unknown refresh key"
  /\ \E k \in Keys : memory[k] # NoEntry /\ ls[getFullKey(k)] # NoEntry
  /\ events # <<>>
  /\ \A c \in DOMAIN calls : ~InFlight(c)

\* The events of the log of one type, and those among them a window of ms
\* milliseconds that ends at time t covers.
OfType(type) == {i \in DOMAIN events : events[i].type = type}
Covered(type, t, ms) == {i \in OfType(type) : t - events[i].timestamp < ms}

\* C21: getStats().hitRate is hits / (hits + misses) over the events of the
\* buffer, 0.75 for 3 hits and 1 miss, and 0 when there is no hit and no
\* miss.  (The log does not change under SpecStats.)
HitRateIsHitsOverRequests ==
  (report.kind = "stats" /\ report.window = Undefined) =>
    LET H == Cardinality(OfType("hit"))
        M == Cardinality(OfType("miss"))
        r == report.stats.hitRate
    IN /\ r.den > 0
       /\ H + M > 0 => r.num * (H + M) = H * r.den
       /\ H + M = 0 => r.num = 0
       /\ (H = 3 /\ M = 1) => r.num * 100 = 75 * r.den

\* getStats() was called on a log of 3 hits and 1 miss.
HitRateIsHitsOverRequestsWitness ==
  /\ report.kind = "stats" /\ report.window = Undefined
  /\ report.stats.hits = 3 /\ report.stats.misses = 1
  /\ Cardinality(OfType("hit")) = 3 /\ Cardinality(OfType("miss")) = 1

\* The status as a number, and the values of the three axes the
\* classification is compared on.
Rank(s) ==
  CASE s = "excellent" -> 3 [] s = "good" -> 2 [] s = "fair" -> 1 [] s = "poor" -> 0
HitRateGrid == {Frac(h, 10) : h \in 0..10}
LatencyGrid == {Frac(d, 1) : d \in Durations \cup {ErrorDuration}}
ErrorRateGrid == {Frac(e, 200) : e \in {0, 1, 2, 3, 9, 10, 11, 19, 20, 21}}
NotWorse(a, b) ==
  /\ ~Lt(a.hitRate, b.hitRate)
  /\ ~Gt(a.avgResponseTime, b.avgResponseTime)
  /\ ~Gt(a.errorRate, b.errorRate)

\* C25: getHealthReport is 'excellent' exactly when hitRate > 0.8, latency <
\* 200 and errorRate < 0.01; otherwise 'good' when > 0.6, < 400 and < 0.05;
\* otherwise 'fair' when > 0.4, < 700 and < 0.1; otherwise 'poor'; and values
\* that are no worse on any axis never get a worse status.
HealthStatusThresholds ==
  report.kind = "health" =>
    LET r == report.health
        Within(hr, ms, er) ==
          /\ Gt(r.hitRate, hr)
          /\ Lt(r.avgResponseTime, Frac(ms, 1))
          /\ Lt(r.errorRate, er)
        excellent == Within(Frac(8, 10), 200, Frac(1, 100))
        good == Within(Frac(6, 10), 400, Frac(5, 100))
        fair == Within(Frac(4, 10), 700, Frac(1, 10))
    IN /\ r.status = "excellent" <=> excellent
       /\ r.status = "good" <=> ~excellent /\ good
       /\ r.status = "fair" <=> ~excellent /\ ~good /\ fair
       /\ r.status = "poor" <=> ~excellent /\ ~good /\ ~fair
       /\ \A hr \in HitRateGrid, avg \in LatencyGrid, er \in ErrorRateGrid :
            LET g == [hitRate |-> hr, avgResponseTime |-> avg, errorRate |-> er]
                s == status(hr, avg, er)
            IN /\ NotWorse(g, r) => Rank(s) >= Rank(r.status)
               /\ NotWorse(r, g) => Rank(r.status) >= Rank(s)

\* A health report of a log with a hit rate above 0.8 and one error in 21
\* requests: 'good', not 'excellent'.
HealthStatusThresholdsWitness ==
  /\ report.kind = "health"
  /\ report.health.status = "good"
  /\ Gt(report.health.hitRate, Frac(8, 10))
  /\ report.health.errorRate = Frac(1, 21)

\* C30: getStats(windowMs), whenever a window is given, windowMs = 0
\* included, counts only the events with now - timestamp < windowMs; without
\* a window it counts the whole buffer.
WindowAlwaysFilters ==
  report.kind = "stats" =>
    LET Counted(type) ==
          IF report.window = Undefined THEN OfType(type)
          ELSE Covered(type, report.at, report.window.ms)
    IN /\ report.stats.hits = Cardinality(Counted("hit"))
       /\ report.stats.misses = Cardinality(Counted("miss"))
       /\ report.stats.errors = Cardinality(Counted("error"))

\* The events of the kinds in S among those a call has had tracked.
Tracked(k, S) == Cardinality({i \in 1..Len(k.emitted) : k.emitted[i] \in S})
\* The Durable Tier probes a call has completed: the one of its cache lookup
\* and the one of its fallback.
FirstProbeDone(k) ==
  /\ k.pc \notin {"idle", "idbGet"}
  /\ k.opts.useCache /\ ~k.opts.forceFresh /\ ~k.opts.prefetch
  /\ k.cfg.useStorageCache
  /\ ~(k.pc = "done" /\ k.src = "memory")
FallbackProbeFinished(k) == k.fbRead /\ k.pc # "fbIdbGet"
DurableProbes(k) ==
  (IF FirstProbeDone(k) THEN 1 ELSE 0) + (IF FallbackProbeFinished(k) THEN 1 ELSE 0)
Failures(k) == Cardinality({i \in 1..Len(k.atts) : k.atts[i] = "fail"})

\* C22: with analytics enabled, a resolve call produces exactly one
\* analytics event for its Fast Tier probe, an event for each Durable Tier
\* probe (a 'miss' event of the network source counts as the report of a
\* Durable miss), an event for the set of each tier it wrote and one for
\* each failed attempt.
EveryStepTracked ==
  \A c \in 1..MaxInFlight :
    LET k == calls[c]
    IN (~k.opts.prefetch /\ ~k.quiet) =>
         /\ "memory" \in k.probed =>
              Tracked(k, {"hit", "miss", "expired"} \X {"memory"}) = 1
         /\ Tracked(k, ({"hit", "miss", "expired", "error"} \X Durable)
                         \cup {<<"miss", "network">>}) >= DurableProbes(k)
         /\ "memory" \in k.wrote => Tracked(k, {<<"set", "memory">>}) >= 1
         /\ k.wrote \cap Durable # {} =>
              Tracked(k, {"set"} \X (Durable \cup {"network"})) >= 1
         /\ Tracked(k, {"error"} \X (Durable \cup {"network"})) >= Failures(k)

PrefetchRetriesLikeResolve ==
  \A c \in 1..MaxInFlight :
    LET k == calls[c]
    IN (k.opts.prefetch /\ k.pc = "pfDone" /\ ~k.fault) =>
         IF HasOk(k)
           THEN /\ "memory" \in k.wrote \/ "memory" \in k.sawOff
                /\ k.wrote \cap Durable # {} \/ "storage" \in k.sawOff
           ELSE /\ Len(k.atts) = k.opts.retries + 1
                /\ Len(k.delays) = k.opts.retries

\* C26 amended: a prefetchOnly call makes one network attempt, without retry
\* and without backoff, whatever maxRetries is; when the attempt succeeds it
\* writes the result into each enabled tier whose backend takes the write,
\* when it fails the call ends there.
PrefetchSingleAttempt ==
  \A c \in 1..MaxInFlight :
    LET k == calls[c]
    IN k.opts.prefetch =>
         /\ Len(k.atts) <= 1
         /\ k.delays = <<>>
         /\ k.pc = "pfDone" => Len(k.atts) = 1
         /\ (k.pc = "pfDone" /\ HasOk(k) /\ ~k.fault) =>
              /\ "memory" \in k.wrote \/ "memory" \in k.sawOff
              /\ k.wrote \cap Durable # {} \/ "storage" \in k.sawOff

\* A prefetch with maxRetries = 2 ended after its one attempt failed.
PrefetchSingleAttemptWitness ==
  \E c \in 1..MaxInFlight :
    /\ calls[c].opts.prefetch /\ calls[c].opts.retries = MAX_RETRIES
    /\ calls[c].pc = "pfDone"
    /\ calls[c].atts = <<"fail">>
    /\ calls[c].emitted = <<<<"error", "network">>>>

\* The IndexedDB gets and puts a step of call c issues: those of its
\* requests in the queue after the step that were not there before it (a
\* step that completes a request of c first removes it from the head).
Issued(c) ==
  LET before == IF calls[c].pc \in {"idbGet", "fbIdbGet", "idbSet", "pfIdbSet"}
                  THEN Tail(idbQueue) ELSE idbQueue
  IN {i \in (Len(before) + 1)..Len(idbQueue') : idbQueue'[i].owner = c}

\* The record a step of call c starts from: a step that invokes apiCall
\* starts from a new one.
Before(c) == IF InFlight(c) THEN calls[c] ELSE InitCall

\* C29: a tier that is disabled in the settings is not touched by a step of
\* a resolve call: with useMemoryCache false no step reads or writes the
\* memory cache, with useStorageCache false no step reads or writes
\* localStorage or issues an IndexedDB get or put, the read of the stale
\* fallback included.
DisabledTierUntouched ==
  [][\A c \in DOMAIN calls :
       calls'[c] # calls[c] =>
         /\ ~settings.useMemoryCache =>
              /\ memory' = memory
              /\ "memory" \notin (calls'[c].probed \ Before(c).probed)
              /\ "memory" \notin (calls'[c].wrote \ Before(c).wrote)
         /\ ~settings.useStorageCache =>
              /\ ls' = ls
              /\ "localStorage" \notin (calls'[c].probed \ Before(c).probed)
              /\ "localStorage" \notin (calls'[c].wrote \ Before(c).wrote)
              /\ calls'[c].fbRead => Before(c).fbRead
              /\ Issued(c) = {}]_vars

\* With the storage cache disabled while localStorage held a value for its
\* key, a call bypassing the caches failed after all its attempts failed,
\* without the fallback read.
DisabledTierUntouchedWitness ==
  \E c \in DOMAIN calls :
    /\ ~settings.useStorageCache
    /\ calls[c].pc = "failed" /\ AllFailed(calls[c])
    /\ "storage" \in calls[c].sawOff /\ ~calls[c].fbRead
    /\ calls[c].probed = {}
    /\ ls[getFullKey(calls[c].key)] # NoEntry

\* No time has passed since the call started.
Instant(k) ==
  IF k.pc \in Settled THEN k.retAt = k.startedAt ELSE now = k.startedAt

\* C27: when the Fast Tier misses and the Durable Tier holds a non-expired
\* value v for the key, resolve returns v with no network attempt, and when
\* it returns the Fast Tier holds v.
DurableHitBackfills ==
  \A c \in 1..MaxInFlight :
    LET k == calls[c]
    IN (/\ k.pc # "idle" /\ k.opts = DefaultOptions
        /\ k.fast = "miss" /\ k.freshAtStart # Null
        /\ Instant(k)
        /\ ~k.fault /\ k.sawOff = {} /\ NoClearAll)
       => /\ ~NetworkStarted(k)
          /\ k.pc \in {"idbGet", "done"}
          /\ k.pc = "done" =>
               /\ k.src = "storage" /\ k.result = k.freshAtStart
               /\ lastReturn # NoReturn =>
                    /\ memory[k.key] # NoEntry
                    /\ memory[k.key].data = k.freshAtStart

\* C28: a value is served through a Fast Tier or Durable Tier hit only while
\* the time since its network fetch stored it is at most its ttl; an entry
\* the Fast Tier got by backfill is not served after the expiry of the
\* Durable Tier entry it came from.
NeverServedPastTtl ==
  \A c \in 1..MaxInFlight :
    LET k == calls[c]
    IN (k.pc = "done" /\ k.src \in {"memory", "storage"}) =>
         k.hit.at <= k.hit.freshUntil

\* C24: createCacheKey maps two different resource URLs to two different
\* keys and the same URL to the same key: two calls have the same key exactly
\* when they have the same URL.
DistinctUrlsDistinctKeys ==
  \A c, d \in DOMAIN calls :
    (calls[c].pc # "idle" /\ calls[d].pc # "idle") =>
      (calls[c].key = calls[d].key <=> calls[c].url = calls[d].url)

\* C31: while the collector is disabled, a step in which trackEvent is called
\* leaves the event log as it was: the events recorded before setEnabled(false)
\* stay, none is added.  The log changes then only by clearEvents, at the end
\* of clearAll.
DisabledCollectorKeepsLog ==
  [][~enabled => (events' = events
                  \/ (mgr.pc = "clearing" /\ mgr'.pc = "idle" /\ events' = <<>>))]_vars

\* A call tried to track an event while the collector was disabled and the
\* settings asked for analytics; the log still holds an earlier event.
DisabledCollectorKeepsLogWitness ==
  /\ ~enabled /\ settings.enableAnalytics
  /\ events # <<>>
  /\ \E c \in 1..MaxInFlight :
       calls[c].quiet /\ calls[c].emitted # <<>> /\ calls[c].pc = "done"

\* C40: the errorRate of a health report lies between 0 and 1 inclusive, and
\* it is above 0 when the log the report was computed from holds an error
\* event.
ErrorRateIsAProportion ==
  report.kind = "health" =>
    LET er == report.health.errorRate
    IN /\ ~Lt(er, Frac(0, 1))
       /\ ~Gt(er, Frac(1, 1))
       /\ (\E i \in 1..Len(events) : events[i].type = "error") => Gt(er, Frac(0, 1))

\* C36: the entry a resolve call cached for the races URL of fetchRaces is
\* removed from the Durable Tier by clearByType("races"): from localStorage
\* when the call is made, from IndexedDB when its clear request completes.
ClearByTypeRemovesCachedRaces ==
  [][LET fk == getFullKey(createCacheKey(fetchRaces.url))
     IN /\ (/\ mgr.pc = "idle" /\ mgr'.pc = "clearingType"
            /\ mgr'.type = TypeRaces /\ ~mgr'.fault)
           => ls'[fk] = NoEntry
        /\ (/\ mgr.pc = "clearingType" /\ mgr'.pc = "idle"
            /\ mgr.type = TypeRaces /\ ~mgr'.fault)
           => idb'[fk] = NoEntry]_vars

\* C38: a resolve call with useCache = false reads no cache tier and writes
\* none; the value it returns was fetched by a network attempt of the call,
\* and the call fails when all its attempts failed.
NoCacheCallTouchesNoTier ==
  \A c \in DOMAIN calls :
    LET k == calls[c]
    IN (k.pc # "idle" /\ ~k.opts.useCache /\ ~k.opts.prefetch) =>
         /\ k.probed = {} /\ ~k.fbRead
         /\ k.wrote = {}
         /\ k.ret = "value" => (k.src = "network" /\ HasOk(k))
         /\ (AllFailed(k) /\ k.pc \in Settled) => k.ret = "error"

\* The step is the first one of a new invocation of apiCall in slot c.
Invoked(c) == calls'[c] # calls[c] /\ ~InFlight(c)
\* The call's events, in the order they were tracked, hold e.
Emitted(k, e) == \E i \in 1..Len(k.emitted) : k.emitted[i] = e

\* C32: the Fast Tier expires lazily.  A get that finds an entry older than
\* MEMORY_TTL removes it, tracks 'expired' and returns absent (the entry of
\* the key is then gone, or is one the same step wrote anew).  An entry is
\* removed only by such a get of its key or by clear, and a get or set on a
\* key changes the entry of no other key.
FastTierLazyExpiry ==
  [][/\ \A c \in DOMAIN calls :
          LET k == calls'[c]
              old == memory[k.key]
          IN (Invoked(c) /\ "memory" \in k.probed
                /\ old # NoEntry /\ MemoryExpired(old)) =>
               /\ k.fast = "miss" /\ k.src # "memory"
               /\ Emitted(k, <<"expired", "memory">>)
               /\ \/ memory'[k.key] = NoEntry
                  \/ "memory" \in k.wrote /\ memory'[k.key].timestamp = now'
     /\ \A j \in Keys :
          memory'[j] # memory[j] =>
            \/ mgr.pc = "idle" /\ mgr'.pc = "clearing"
               /\ memory' = [i \in Keys |-> NoEntry]
            \/ \E c \in DOMAIN calls :
                 /\ calls'[c] # calls[c] /\ calls'[c].key = j
                 /\ memory'[j] = NoEntry =>
                      /\ Invoked(c) /\ MemoryExpired(memory[j])
                      /\ Emitted(calls'[c], <<"expired", "memory">>)
                 /\ memory'[j] # NoEntry => "memory" \in calls'[c].wrote]_vars

\* A get removed the expired entry of the races while the entry of the
\* drivers, as old, stayed in the Fast Tier.
FastTierLazyExpiryWitness ==
  \E c \in DOMAIN calls :
    /\ calls[c].key = createCacheKey(UrlRaces)
    /\ calls[c].pc = "idbGet" /\ calls[c].fast = "miss"
    /\ Emitted(calls[c], <<"expired", "memory">>)
    /\ memory[createCacheKey(UrlRaces)] = NoEntry
    /\ memory[createCacheKey(UrlDrivers)] # NoEntry
    /\ MemoryExpired(memory[createCacheKey(UrlDrivers)])

\* C34: no operation of the Durable Tier (clear with or without a
\* sub-prefix, the remove of an expired entry, set, get) removes or changes,
\* in either backend, a key of the host store that does not start with the
\* layer's prefix, and none adds a key to the store.
ClearStaysInNamespace ==
  [][/\ DOMAIN ls' = DOMAIN ls /\ DOMAIN idb' = DOMAIN idb
     /\ \A fk \in DOMAIN ls : ls'[fk] # ls[fk] => startsWith(fk, prefix)
     /\ \A fk \in DOMAIN idb : idb'[fk] # idb[fk] => startsWith(fk, prefix)]_vars

\* A clear with a sub-prefix and a clear without one have completed: both
\* backends hold no key of the namespace, and the keys of other code are as
\* they were.
ClearStaysInNamespaceWitness ==
  /\ mgr.pc = "idle" /\ mgr.last = "resolved" /\ mgr.type = TypeRaces
  /\ \A fk \in FullKeys : ls[fk] = NoEntry /\ idb[fk] = NoEntry
  /\ \A fk \in ForeignKeys : ls[fk] = ForeignItem /\ idb[fk] = ForeignItem

\* The step completes the delete that a get of an expired IndexedDB item
\* issued.
ExpiredRemoveCompletes ==
  idbQueue # <<>> /\ NextReq.op = "delete" /\ idbQueue' = Tail(idbQueue)
\* The step is the clear of clearAll or clearByType taking effect.
ClearStep == mgr'.pc # mgr.pc

\* C37: the removal that a get of an expired Durable entry triggers never
\* removes a fresh entry: when it completes, also after a set of the same key
\* by a concurrent call, an entry that has not expired is still there.
ExpiredRemoveSparesFreshEntry ==
  [][ExpiredRemoveCompletes =>
       LET item == idb[NextReq.fk]
       IN (item # NoEntry /\ ~StorageExpired(item)) => idb'[NextReq.fk] = item]_vars

\* C33: the Durable Tier expires lazily.  A get that finds the entry of its
\* key expired returns absent (the call goes on without a hit) and the entry
\* is deleted from the backend that held it: from localStorage in the same
\* step, from IndexedDB by a delete issued in that step, which removes the
\* entry when it completes.  An entry is removed, other than by clear, only
\* when it has expired and a get has read it.
DurableLazyExpiry ==
  [][/\ \A c \in DOMAIN calls :
          LET k == calls'[c]
              fk == getFullKey(k.key)
              firstRead == Invoked(c) /\ "localStorage" \in k.probed
          IN /\ (firstRead /\ ls[fk] # NoEntry /\ StorageExpired(ls[fk])) =>
                  /\ ls'[fk] = NoEntry
                  /\ k.hit = NoEntry \/ k.hit.tier # "localStorage"
             /\ (/\ calls[c].pc = "idbGet" /\ k.pc # "idbGet"
                 /\ idb[fk] # NoEntry /\ StorageExpired(idb[fk])) =>
                  /\ k.hit = NoEntry /\ k.src # "storage"
                  /\ \E i \in 1..Len(idbQueue') :
                       idbQueue'[i].op = "delete" /\ idbQueue'[i].fk = fk
     /\ ExpiredRemoveCompletes => idb'[NextReq.fk] = NoEntry
     /\ \A fk \in FullKeys :
          /\ (ls[fk] # NoEntry /\ ls'[fk] = NoEntry /\ ~ClearStep) =>
               /\ StorageExpired(ls[fk])
               /\ \E c \in DOMAIN calls :
                    /\ calls'[c] # calls[c] /\ getFullKey(calls'[c].key) = fk
                    /\ "localStorage" \in calls'[c].probed
          /\ (idb[fk] # NoEntry /\ idb'[fk] = NoEntry /\ ~ClearStep) =>
               /\ StorageExpired(idb[fk])
               /\ ExpiredRemoveCompletes /\ NextReq.fk = fk]_vars

\* The step records an event in the log: recorded is that event.
Records == events' # events /\ events' # <<>>
recorded == Head(events')

\* C35: a registered listener is invoked once for every event the layer
\* records whose kind is the listener's, a listener for '*' for every
\* recorded event, and a listener that was unsubscribed is not invoked again.
ListenersHearRecordedEvents ==
  [][\A i \in 1..Len(listeners) :
       LET l == listeners[i]
       IN /\ (Records /\ l.registered /\ l.kind \in {"*", recorded.type}) =>
               listeners'[i].invoked = l.invoked + 1
          /\ ~l.registered => listeners'[i].invoked = l.invoked]_vars

\* C39: every non-prefetch resolve call terminates.  While it runs and when
\* it has ended it has made at most retries + 1 network attempts and waited
\* at most retries backoff delays, whatever retries is; and, every network
\* attempt, timer and Durable Tier request completing, a call in progress
\* leads to the call having returned a value or failed.
ResolveTerminates ==
  /\ [](\A c \in DOMAIN calls :
          LET k == calls[c]
          IN /\ Len(k.atts) <= k.opts.retries + 1
             /\ Len(k.delays) <= k.opts.retries
             /\ k.pc \in Settled => k.ret \in {"value", "error"})
  /\ \A c \in 1..MaxInFlight :
       InFlight(c) ~> (calls[c].pc \in Settled /\ calls[c].ret \in {"value", "error"})

\* A call with one retry more than the default failed after all its
\* attempts failed, each but the last followed by a backoff delay.
ResolveTerminatesWitness ==
  \E c \in DOMAIN calls :
    LET k == calls[c]
    IN /\ k.pc = "failed" /\ k.opts.retries = MAX_RETRIES + 1
       /\ AllFailed(k)
       /\ k.delays = [a \in 1..k.opts.retries |-> BackoffDelay(a - 1)]

====
